---- MODULE Spec2Model ----
(***************************************************************************)
(* Model of the generation / reconciliation pipeline of storyblok-cli-ai   *)
(* (server/app): the followup gate, the single-shot and streamed           *)
(* orchestrators, the overlay delta, the dependency resolver and the       *)
(* validate / repair loop.                                                 *)
(*                                                                         *)
(* Strings that the code inspects are sequences of tokens.  A path is a    *)
(* sequence over "/", "\\", "." and name atoms (an atom is a run of        *)
(* characters holding no separator and no leading dot, e.g. "a" or         *)
(* "package.json"); os.path is the POSIX one (os.sep = "/").               *)
(***************************************************************************)
EXTENDS Integers, Sequences, FiniteSets, TLC

(***************************************************************************)
(* Bounds of the model.                                                    *)
(***************************************************************************)
MaxFiles == 2          \* files in one model (LLM) generation result
MaxRepairFiles == 1    \* files in one repair result
MaxBudget == 2         \* largest configured repair budget explored

(***************************************************************************)
(* Sequence helpers.                                                       *)
(***************************************************************************)
RECURSIVE SeqsUpTo(_, _)
SeqsUpTo(S, n) ==
  IF n = 0 THEN {<<>>}
  ELSE LET shorter == SeqsUpTo(S, n - 1)
       IN  shorter \cup {Append(s, x) : s \in {t \in shorter : Len(t) = n - 1}, x \in S}

Range(s) == {s[i] : i \in 1..Len(s)}

StartsWith(s, pre) ==
  /\ Len(pre) <= Len(s)
  /\ SubSeq(s, 1, Len(pre)) = pre

EndsWith(s, suf) ==
  /\ Len(suf) <= Len(s)
  /\ SubSeq(s, Len(s) - Len(suf) + 1, Len(s)) = suf

\* python: sub in s
Contains(s, sub) ==
  \E i \in 1..(Len(s) + 1) :
    /\ i + Len(sub) - 1 <= Len(s)
    /\ SubSeq(s, i, i + Len(sub) - 1) = sub

\* python: s.lstrip(chars)
RECURSIVE Lstrip(_, _)
Lstrip(s, chars) ==
  IF s # <<>> /\ Head(s) \in chars THEN Lstrip(Tail(s), chars) ELSE s

\* python: s.replace(old, new) for single characters
Replace(s, old, new) == [i \in 1..Len(s) |-> IF s[i] = old THEN new ELSE s[i]]

(***************************************************************************)
(* posixpath.normpath, os.path.basename, os.path.isabs                     *)
(***************************************************************************)
RECURSIVE SplitAcc(_, _, _, _)
SplitAcc(s, i, cur, acc) ==
  IF i > Len(s) THEN Append(acc, cur)
  ELSE IF s[i] = "/" THEN SplitAcc(s, i + 1, <<>>, Append(acc, cur))
  ELSE SplitAcc(s, i + 1, Append(cur, s[i]), acc)

\* python: s.split("/")
Split(s) == SplitAcc(s, 1, <<>>, <<>>)

RECURSIVE Join(_)
\* python: "/".join(comps)
Join(comps) ==
  IF comps = <<>> THEN <<>>
  ELSE IF Len(comps) = 1 THEN comps[1]
  ELSE comps[1] \o <<"/">> \o Join(Tail(comps))

CurDir == <<".">>
ParDir == <<".", ".">>

RECURSIVE NormComps(_, _, _, _)
NormComps(comps, i, initial, new) ==
  IF i > Len(comps) THEN new
  ELSE LET comp == comps[i] IN
    IF comp = <<>> \/ comp = CurDir THEN NormComps(comps, i + 1, initial, new)
    ELSE IF \/ comp # ParDir
            \/ (initial = 0 /\ new = <<>>)
            \/ (new # <<>> /\ new[Len(new)] = ParDir)
         THEN NormComps(comps, i + 1, initial, Append(new, comp))
    ELSE IF new # <<>>
         THEN NormComps(comps, i + 1, initial, SubSeq(new, 1, Len(new) - 1))
    ELSE NormComps(comps, i + 1, initial, new)

InitialSlashes(path) ==
  IF ~StartsWith(path, <<"/">>) THEN 0
  ELSE IF StartsWith(path, <<"/", "/">>) /\ ~StartsWith(path, <<"/", "/", "/">>) THEN 2
  ELSE 1

NormPath(path) ==
  IF path = <<>> THEN CurDir
  ELSE LET initial == InitialSlashes(path)
           body == Join(NormComps(Split(path), 1, initial, <<>>))
           out == [i \in 1..initial |-> "/"] \o body
       IN  IF out = <<>> THEN CurDir ELSE out

Basename(path) ==
  LET comps == Split(path) IN comps[Len(comps)]

IsAbs(path) == StartsWith(path, <<"/">>)

\* os.path.normpath(p).lstrip(os.sep): the key of the merge / dedupe step
CleanPath(p) == Lstrip(NormPath(p), {"/"})

normalize_path(p) == Lstrip(Replace(NormPath(p), "\\", "/"), {"/"})

NoPath == <<"<None>">>

\* _safe_normalize: NoPath stands for None
safe_normalize(p) ==
  IF p = <<>> THEN NoPath
  ELSE LET q == Replace(p, "\\", "/") IN
    IF IsAbs(q) THEN NoPath
    ELSE LET clean == NormPath(q) IN
      IF StartsWith(clean, ParDir) \/ Contains(clean, <<"/", ".", ".">>) THEN NoPath
      ELSE Lstrip(Replace(clean, "\\", "/"), {".", "/"})

Manifest == <<"package.json">>

\* p == "package.json" or p.endswith("/package.json"), p = os.path.normpath(path)
IsManifestPath(path) ==
  LET p == NormPath(path) IN p = Manifest \/ EndsWith(p, <<"/">> \o Manifest)

(***************************************************************************)
(* Python dicts are functions with a finite domain.                        *)
(***************************************************************************)
EmptyDict == <<>>

Put(d, k, v) == [x \in (DOMAIN d) \cup {k} |-> IF x = k THEN v ELSE d[x]]

Update(d, e) == [x \in (DOMAIN d) \cup (DOMAIN e) |-> IF x \in DOMAIN e THEN e[x] ELSE d[x]]

None == "<None>"

(***************************************************************************)
(* File records and contents.  A content is a record: txt is the text, a   *)
(* sequence of characters; json tells that the text is a JSON object,      *)
(* whose dependency sections are pkg (each a sequence of <<name, range>>   *)
(* in document order; the text of a JSON object stands for its             *)
(* serialization); fmt tells a document as the model wrote it ("raw")      *)
(* from the output of json.dumps(obj, indent=2) ("dumps").                 *)
(***************************************************************************)
NoSections == [dependencies |-> <<>>, devDependencies |-> <<>>, peerDependencies |-> <<>>]

Text(t) == [txt |-> t, json |-> FALSE, pkg |-> NoSections, fmt |-> "raw"]

Json(deps) == [txt |-> <<"{", "}">>, json |-> TRUE, pkg |-> [NoSections EXCEPT !.dependencies = deps], fmt |-> "raw"]

\* a manifest with entries in each of its three sections
Pkg(deps, dev, peer) ==
  [txt |-> <<"{", "}">>, json |-> TRUE,
   pkg |-> [dependencies |-> deps, devDependencies |-> dev, peerDependencies |-> peer], fmt |-> "raw"]

\* a manifest that is valid JSON and not an object: json.loads returns a list
JsonArray == [txt |-> <<"[", "]">>, json |-> TRUE, pkg |-> NoSections, fmt |-> "raw"]

File(p, c) == [path |-> p, content |-> c]

(***************************************************************************)
(* Overlay delta and merge / dedupe (core/codegen_agent.py).               *)
(***************************************************************************)
\* generate_project: base_files_map[_normalize_path(p)] = c, in list order
RECURSIVE BuildBaseMap(_, _, _)
BuildBaseMap(bfs, i, m) ==
  IF i > Len(bfs) THEN m
  ELSE BuildBaseMap(bfs, i + 1, Put(m, normalize_path(bfs[i].path), bfs[i].content))

\* _compute_delta_files
RECURSIVE ComputeDeltaLoop(_, _, _, _)
ComputeDeltaLoop(emitted, base_map, i, delta) ==
  IF i > Len(emitted) THEN delta
  ELSE LET content == emitted[i].content
           npath == normalize_path(emitted[i].path) IN
    IF Basename(npath) = Manifest
    THEN ComputeDeltaLoop(emitted, base_map, i + 1, delta)
    ELSE IF npath \notin DOMAIN base_map
    THEN ComputeDeltaLoop(emitted, base_map, i + 1, Append(delta, File(npath, content)))
    ELSE IF base_map[npath] # content
    THEN ComputeDeltaLoop(emitted, base_map, i + 1, Append(delta, File(npath, content)))
    ELSE ComputeDeltaLoop(emitted, base_map, i + 1, delta)

\* a delta without the content comparison: only the files at unseen paths
ComputeDeltaNewPathsOnly(emitted, base_map) ==
  SelectSeq([i \in 1..Len(emitted) |-> File(normalize_path(emitted[i].path), emitted[i].content)],
            LAMBDA f : Basename(f.path) # Manifest /\ f.path \notin DOMAIN base_map)

ComputeDeltaFiles(emitted, base_map) == ComputeDeltaLoop(emitted, base_map, 1, <<>>)

\* the replacement loop of the merge steps: the first entry whose cleaned path is
\* clean_p gets the new content; with no such entry the list stays as it is
ReplaceFirst(fs, clean_p, content) ==
  IF \E i \in 1..Len(fs) : CleanPath(fs[i].path) = clean_p
  THEN LET k == CHOOSE i \in 1..Len(fs) :
                  /\ CleanPath(fs[i].path) = clean_p
                  /\ \A j \in 1..(i - 1) : CleanPath(fs[j].path) # clean_p
       IN  [fs EXCEPT ![k] = File(clean_p, content)]
  ELSE fs

\* generate_project: "sanitize & dedupe"
RECURSIVE DedupeLoop(_, _, _, _)
DedupeLoop(gen, i, seen, sanitized) ==
  IF i > Len(gen) THEN sanitized
  ELSE LET p == gen[i].path IN
    IF p = <<>> THEN DedupeLoop(gen, i + 1, seen, sanitized)
    ELSE LET clean_p == CleanPath(p) IN
      IF clean_p \in seen
      THEN DedupeLoop(gen, i + 1, seen, ReplaceFirst(sanitized, clean_p, gen[i].content))
      ELSE DedupeLoop(gen, i + 1, seen \cup {clean_p}, Append(sanitized, File(clean_p, gen[i].content)))

Dedupe(gen) == DedupeLoop(gen, 1, {}, <<>>)

\* generate_project: "If repair provided files, merge them into sanitized_files"
RECURSIVE MergeRepaired(_, _, _)
MergeRepaired(sanitized, rep_files, i) ==
  IF i > Len(rep_files) THEN sanitized
  ELSE LET rp == CleanPath(rep_files[i].path) IN
    IF \E k \in 1..Len(sanitized) : CleanPath(sanitized[k].path) = rp
    THEN MergeRepaired(ReplaceFirst(sanitized, rp, rep_files[i].content), rep_files, i + 1)
    ELSE MergeRepaired(Append(sanitized, File(rp, rep_files[i].content)), rep_files, i + 1)

(***************************************************************************)
(* The followup gate (core/followup_agent.py, and the legacy gate of       *)
(* core/chain.py).  A question text is a sequence of characters; urgencies *)
(* are in hundredths.                                                      *)
(***************************************************************************)
Space == " "

\* str.lower on the characters of the model
LowerChar(c) == IF c = "Q" THEN "q" ELSE IF c = "R" THEN "r" ELSE c

Lower(s) == [i \in 1..Len(s) |-> LowerChar(s[i])]

\* str.split(): the maximal runs of non-whitespace characters
RECURSIVE WordsAcc(_, _, _, _)
WordsAcc(s, i, cur, acc) ==
  IF i > Len(s) THEN (IF cur = <<>> THEN acc ELSE Append(acc, cur))
  ELSE IF s[i] = Space
       THEN WordsAcc(s, i + 1, <<>>, IF cur = <<>> THEN acc ELSE Append(acc, cur))
       ELSE WordsAcc(s, i + 1, Append(cur, s[i]), acc)

Words(s) == WordsAcc(s, 1, <<>>, <<>>)

RECURSIVE JoinWords(_)
JoinWords(ws) ==
  IF ws = <<>> THEN <<>>
  ELSE IF Len(ws) = 1 THEN ws[1]
  ELSE ws[1] \o <<Space>> \o JoinWords(Tail(ws))

RECURSIVE LstripSpace(_)
LstripSpace(s) == IF s # <<>> /\ s[1] = Space THEN LstripSpace(Tail(s)) ELSE s

RECURSIVE RstripSpace(_)
RstripSpace(s) ==
  IF s # <<>> /\ s[Len(s)] = Space THEN RstripSpace(SubSeq(s, 1, Len(s) - 1)) ELSE s

\* str.strip()
Strip(s) == RstripSpace(LstripSpace(s))

\* _normalize: " ".join(s.strip().lower().split())
Normalize(s) == JoinWords(Words(Lower(Strip(s))))

\* Python's `a in b` on strings
IsSubstring(a, b) == \E i \in 1..(Len(b) - Len(a) + 1) : SubSeq(b, i, i + Len(a) - 1) = a

\* an item of the "followups" list of the model output: a string, or an object
\* with a question and an urgency (NoUrgency: the key is absent)
NoUrgency == -1

StrItem(q) == [isdict |-> FALSE, question |-> q, urgency |-> NoUrgency]

DictItem(q, u) == [isdict |-> TRUE, question |-> q, urgency |-> u]

Clamp(u) == IF u < 0 THEN 0 ELSE IF u > 100 THEN 100 ELSE u

\* the raw model output: failed (the call raised, parsed = None) or a followups list
GateFailed == [failed |-> TRUE, items |-> <<>>]

GateReturned(items) == [failed |-> FALSE, items |-> items]

\* _parse_followups
RECURSIVE ParseItems(_, _, _)
ParseItems(items, i, out) ==
  IF i > Len(items) THEN out
  ELSE LET it == items[i] IN
    IF it.isdict
    THEN IF it.question # <<>>
         THEN ParseItems(items, i + 1,
                Append(out, [question |-> Strip(it.question),
                             urgency |-> IF it.urgency = NoUrgency THEN 50 ELSE Clamp(it.urgency)]))
         ELSE ParseItems(items, i + 1, out)
    ELSE IF Strip(it.question) # <<>>
         THEN ParseItems(items, i + 1, Append(out, [question |-> Strip(it.question), urgency |-> 50]))
         ELSE ParseItems(items, i + 1, out)

parse_followups(raw) == IF raw.failed THEN <<>> ELSE ParseItems(raw.items, 1, <<>>)

\* prev_answer_texts: the normalized non-blank answers
PrevAnswerTexts(answers) == {Normalize(v) : v \in {w \in answers : Strip(w) # <<>>}}

AlreadyAnswered(qnorm, prev_answer_texts) ==
  \E a \in prev_answer_texts : a # <<>> /\ (IsSubstring(a, qnorm) \/ IsSubstring(qnorm, a))

\* generate_followup_questions, step 3: dedupe / filter the candidates
RECURSIVE FilterCandidates(_, _, _, _, _)
FilterCandidates(cands, i, seen_qs, prev_answer_texts, filtered) ==
  IF i > Len(cands) THEN filtered
  ELSE LET qtext == cands[i].question
           qnorm == Normalize(qtext) IN
    IF Strip(qtext) = <<>> THEN FilterCandidates(cands, i + 1, seen_qs, prev_answer_texts, filtered)
    ELSE IF qnorm \in seen_qs THEN FilterCandidates(cands, i + 1, seen_qs, prev_answer_texts, filtered)
    ELSE IF AlreadyAnswered(qnorm, prev_answer_texts)
    THEN FilterCandidates(cands, i + 1, seen_qs, prev_answer_texts, filtered)
    ELSE FilterCandidates(cands, i + 1, seen_qs \cup {qnorm}, prev_answer_texts,
                          Append(filtered, [question |-> Strip(qtext), urgency |-> cands[i].urgency]))

\* a gate that does not start seen_qs from the questions asked before
FollowupsIgnoringHistory(raw, o) ==
  LET max_questions == IF o.max_questions < 1 THEN 1 ELSE o.max_questions
      filtered == FilterCandidates(parse_followups(raw), 1, {}, PrevAnswerTexts(o.answers), <<>>)
      urgent == SelectSeq(filtered, LAMBDA f : f.urgency >= o.min_urgency)
  IN  SubSeq(urgent, 1, IF Len(urgent) < max_questions THEN Len(urgent) ELSE max_questions)

\* generate_followup_questions: the followups list it returns
generate_followup_questions(raw, o) ==
  LET max_questions == IF o.max_questions < 1 THEN 1 ELSE o.max_questions
      candidates == parse_followups(raw)
      prev_q_norm == {Normalize(q) : q \in o.previous_questions}
      filtered == FilterCandidates(candidates, 1, prev_q_norm, PrevAnswerTexts(o.answers), <<>>)
      urgent == SelectSeq(filtered, LAMBDA f : f.urgency >= o.min_urgency)
  IN  SubSeq(urgent, 1, IF Len(urgent) < max_questions THEN Len(urgent) ELSE max_questions)

\* chain.py: the fixed question asked when questions were requested and none came
\* (the followups of chain.py carry no urgency)
FallbackQuestion == [question |-> <<"fallback">>, urgency |-> NoUrgency]

\* chain.py: raw_followups -> _normalize_followup_item -> the fallback
chain_followups(raw, o) ==
  LET kept == SelectSeq(raw.items, LAMBDA it : it.question # <<>>)
      normalized == [i \in 1..Len(kept) |-> [question |-> kept[i].question, urgency |-> NoUrgency]]
  IN  IF o.request_questions /\ normalized = <<>> THEN <<FallbackQuestion>> ELSE normalized

(***************************************************************************)
(* The scratch directory: Path(tmpdir) / path, mkdir(parents) and           *)
(* write_text.  A target is the list of components of the resolved         *)
(* location; the disk is the set of targets that are regular files.        *)
(***************************************************************************)
TmpDir(name) == << <<"tmp">>, <<name>> >>

RECURSIVE ResolveComps(_, _, _)
ResolveComps(comps, i, out) ==
  IF i > Len(comps) THEN out
  ELSE IF comps[i] = <<>> \/ comps[i] = CurDir THEN ResolveComps(comps, i + 1, out)
  ELSE IF comps[i] = ParDir
       THEN ResolveComps(comps, i + 1, IF out = <<>> THEN out ELSE SubSeq(out, 1, Len(out) - 1))
  ELSE ResolveComps(comps, i + 1, Append(out, comps[i]))

\* Path(dir) / path: an absolute path replaces dir
WriteTarget(dir, path) ==
  ResolveComps(IF IsAbs(path) THEN Split(path) ELSE dir \o Split(path), 1, <<>>)

IsPrefix(a, b) == Len(a) <= Len(b) /\ SubSeq(b, 1, Len(a)) = a

\* the write raises: the target is a directory (the scratch directory, one of its
\* ancestors, or the parent of a file written before) or lies under a regular file
WriteRaises(d, dir, t) ==
  \/ IsPrefix(t, dir)
  \/ \E f \in d : f # t /\ (IsPrefix(t, f) \/ IsPrefix(f, t))

\* for f in files: mkdir, write_text; the first failing write raises
RECURSIVE WriteAll(_, _, _, _)
WriteAll(d, dir, fs, i) ==
  IF i > Len(fs) THEN [ok |-> TRUE, disk |-> d]
  ELSE LET t == WriteTarget(dir, fs[i].path) IN
    IF WriteRaises(d, dir, t) THEN [ok |-> FALSE, disk |-> d]
    ELSE WriteAll(d \cup {t}, dir, fs, i + 1)

\* attempt_repair: each write in its own try / except; applied counts the successes
RECURSIVE ApplyRepair(_, _, _, _, _)
ApplyRepair(d, dir, fs, i, applied) ==
  IF i > Len(fs) THEN [applied |-> applied, disk |-> d]
  ELSE LET t == WriteTarget(dir, fs[i].path) IN
    IF WriteRaises(d, dir, t) THEN ApplyRepair(d, dir, fs, i + 1, applied)
    ELSE ApplyRepair(d \cup {t}, dir, fs, i + 1, applied + 1)

(***************************************************************************)
(* Insertion-ordered dicts (the order Python iterates a dict in): a        *)
(* sequence of <<key, value>> pairs with distinct keys.                    *)
(***************************************************************************)
ODKeys(od) == [i \in 1..Len(od) |-> od[i][1]]

ODHas(od, k) == \E i \in 1..Len(od) : od[i][1] = k

ODGet(od, k) == od[CHOOSE i \in 1..Len(od) : od[i][1] = k][2]

ODPut(od, k, v) ==
  IF ODHas(od, k)
  THEN [i \in 1..Len(od) |-> IF od[i][1] = k THEN <<k, v>> ELSE od[i]]
  ELSE Append(od, <<k, v>>)

RECURSIVE ODUpdate(_, _)
ODUpdate(od, other) ==
  IF other = <<>> THEN od
  ELSE ODUpdate(ODPut(od, other[1][1], other[1][2]), Tail(other))

(***************************************************************************)
(* Dependency resolver (core/dep_resolver.py).                             *)
(* A package name is a token sequence over "@" and atoms.  Times are in    *)
(* units of 12 hours, so that the 24 h TTL is 2.  Confidences are in       *)
(* hundredths.                                                             *)
(***************************************************************************)
NPM_CACHE_TTL == 2

Sections == <<"dependencies", "devDependencies", "peerDependencies">>

RECURSIVE SplitOnAcc(_, _, _, _, _)
SplitOnAcc(s, sep, i, cur, acc) ==
  IF i > Len(s) THEN Append(acc, cur)
  ELSE IF s[i] = sep THEN SplitOnAcc(s, sep, i + 1, <<>>, Append(acc, cur))
  ELSE SplitOnAcc(s, sep, i + 1, Append(cur, s[i]), acc)

\* the key under which resolve_and_pin_files collects a manifest entry
CollectKey(name) ==
  IF "@" \in Range(name) /\ ~StartsWith(name, <<"@">>) /\ ~StartsWith(name, <<"http">>)
  THEN LET parts == SplitOnAcc(name, "@", 1, <<>>, <<>>) IN
         IF Len(parts) = 2 /\ parts[2] # <<>> /\ parts[1] # <<>> THEN parts[1] ELSE name
  ELSE name

RECURSIVE CollectSection(_, _, _)
CollectSection(sec_map, i, collected) ==
  IF i > Len(sec_map) THEN collected
  ELSE CollectSection(sec_map, i + 1, ODPut(collected, CollectKey(sec_map[i][1]), sec_map[i][2]))

\* resolve_and_pin_files: "collect deps across sections"
CollectDeps(pkg) ==
  CollectSection(pkg.peerDependencies, 1,
    CollectSection(pkg.devDependencies, 1,
      CollectSection(pkg.dependencies, 1, <<>>)))

\* one entry of the "resolved" list; AbsentCandidates: the entry has no "candidates" key
Resolved(name, ver, source, conf, cands) ==
  [name |-> name, version |-> ver, source |-> source, confidence |-> conf, candidates |-> cands]

AbsentCandidates == <<[name |-> <<>>, version |-> None]>>

\* versions compare as Python compares the strings
VerLeq(a, b) == a = b \/ (a = "1.0.0" /\ b = "2.0.0")

\* sorted(list(data["versions"].keys()))[-1]
LastVersion(versions) == CHOOSE v \in versions : \A w \in versions : VerLeq(w, v)

\* the version a 200 registry document yields, None when it has none
DocumentVersion(data) ==
  IF data.latest # None THEN data.latest
  ELSE IF data.version # None THEN data.version
  ELSE IF data.versions # {} THEN LastVersion(data.versions)
  ELSE None

\* a lookup that takes whatever entry the cache holds
CacheHitAnyAge(cache, name, now) == name \in DOMAIN cache

\* is the cache entry for name fresh at time now?
CacheHit(cache, name, now) ==
  /\ name \in DOMAIN cache
  /\ now - cache[name].ts < NPM_CACHE_TTL

(***************************************************************************)
(* One iteration of the loop of _resolve_with_registry for `name`: st is   *)
(* [cache, pinned, warnings, resolved] and out the outcome of the registry *)
(* request (not consulted on a cache hit).                                 *)
(***************************************************************************)
RegistryIteration(st, name, out, now) ==
  IF CacheHit(st.cache, name, now)
  THEN [st EXCEPT !.pinned = ODPut(@, name, st.cache[name].ver),
                  !.resolved = Append(@, Resolved(name, st.cache[name].ver, "npm-cache", 95, AbsentCandidates))]
  ELSE IF out.kind = "exc"
  THEN [st EXCEPT !.warnings = Append(@, <<"failed to query registry", name>>),
                  !.resolved = Append(@, Resolved(name, None, None, 0, <<>>))]
  ELSE IF out.kind = "200"
  THEN LET ver == DocumentVersion(out.data) IN
       IF ver # None
       THEN [st EXCEPT !.pinned = ODPut(@, name, ver),
                       !.resolved = Append(@, Resolved(name, ver, "npm", 98, AbsentCandidates)),
                       !.cache = Put(@, name, [ver |-> ver, ts |-> now])]
       ELSE [st EXCEPT !.resolved = Append(@, Resolved(name, None, None, 0, out.candidates)),
                       !.warnings = Append(@, <<"no version found", name>>)]
  ELSE IF out.kind = "404"
  THEN IF out.candidates # <<>>
       THEN LET top == out.candidates[1] IN
            [st EXCEPT !.pinned = ODPut(@, top.name, top.version),
                       !.cache = Put(@, top.name, [ver |-> top.version, ts |-> now]),
                       !.resolved = Append(@, Resolved(name, None, None, 0, out.candidates)),
                       !.warnings = Append(@, <<"not found; suggested candidates returned", name>>)]
       ELSE [st EXCEPT !.resolved = Append(@, Resolved(name, None, None, 0, <<>>)),
                       !.warnings = Append(@, <<"npm registry returned 404", name>>)]
  ELSE [st EXCEPT !.warnings = Append(@, <<"npm registry returned status", name>>)]

\* _extract_pinned_from_lockfile: lock.dependencies maps name -> version (None when
\* the entry has none), lock.packages is the ordered "node_modules/<name>" map
RECURSIVE PinFromDependencies(_, _, _, _)
PinFromDependencies(deps, requested, i, pinned) ==
  IF i > Len(requested) THEN pinned
  ELSE LET name == requested[i] IN
    IF name \in DOMAIN deps /\ deps[name] # None
    THEN PinFromDependencies(deps, requested, i + 1, ODPut(pinned, name, deps[name]))
    ELSE PinFromDependencies(deps, requested, i + 1, pinned)

RECURSIVE PinFromPackages(_, _, _, _)
PinFromPackages(packages, requested, i, pinned) ==
  IF i > Len(packages) THEN pinned
  ELSE LET nm == packages[i][1]
           ver == packages[i][2] IN
    IF nm \in Range(requested) /\ ver # None
    THEN PinFromPackages(packages, requested, i + 1, ODPut(pinned, nm, ver))
    ELSE PinFromPackages(packages, requested, i + 1, pinned)

ExtractPinnedFromLockfile(lock, requested) ==
  LET pinned == PinFromDependencies(lock.dependencies, requested, 1, <<>>) IN
  IF Len(pinned) < Len(requested)
  THEN PinFromPackages(lock.packages, requested, 1, pinned)
  ELSE pinned

\* resolve_and_pin: "add pinned entries with high confidence"
PinnedEntries(pinned) ==
  [i \in 1..Len(pinned) |-> Resolved(pinned[i][1], pinned[i][2], "npm", 98, AbsentCandidates)]

\* resolve_and_pin: missing = [n for n in deps.keys() if n not in pinned]
Missing(names, pinned) == SelectSeq(names, LAMBDA n : ~ODHas(pinned, n))

(***************************************************************************)
(* resolve_and_pin_files: locating and rewriting the manifest.             *)
(***************************************************************************)
\* json.loads(content or "{}") succeeds
Parses(c) == c.json \/ c.txt = <<>>

\* pkg_obj.get(sec, {}) is defined: the parsed manifest is a dict
IsObject(c) == c # JsonArray

ManifestIdxs(fs) == {i \in 1..Len(fs) : IsManifestPath(fs[i].path)}

\* the loop has no break: the first manifest that fails to parse returns early,
\* otherwise the last manifest of the list is the one rewritten
ManifestParseFails(fs) == \E i \in ManifestIdxs(fs) : ~Parses(fs[i].content)

PkgIdx(fs) == CHOOSE i \in ManifestIdxs(fs) : \A j \in ManifestIdxs(fs) : j <= i

\* a rewrite that also writes the pinned names the section does not hold
RewriteSectionAddPinned(sec_map, pinned) ==
  IF sec_map = <<>> THEN <<>>
  ELSE [i \in 1..Len(sec_map) |->
          LET name == sec_map[i][1]
              val == sec_map[i][2] IN
          IF ODHas(pinned, name) THEN <<name, ODGet(pinned, name)>>
          ELSE IF val # "" THEN <<name, val>>
          ELSE <<name, "*">>]
       \o SelectSeq(pinned, LAMBDA e : ~ODHas(sec_map, e[1]))

\* a rewrite that leaves an entry without a range empty
RewriteSectionKeepEmpty(sec_map, pinned) ==
  [i \in 1..Len(sec_map) |->
     LET name == sec_map[i][1]
         val == sec_map[i][2] IN
     IF ODHas(pinned, name) THEN <<name, ODGet(pinned, name)>> ELSE <<name, val>>]

\* new_sec[name] = pinned[name], or the requested string, or "*"
RewriteSection(sec_map, pinned) ==
  [i \in 1..Len(sec_map) |->
     LET name == sec_map[i][1]
         val == sec_map[i][2] IN
     IF ODHas(pinned, name) THEN <<name, ODGet(pinned, name)>>
     ELSE IF val # "" THEN <<name, val>>
     ELSE <<name, "*">>]

RewritePkg(pkg, pinned) ==
  [dependencies |-> RewriteSection(pkg.dependencies, pinned),
   devDependencies |-> RewriteSection(pkg.devDependencies, pinned),
   peerDependencies |-> RewriteSection(pkg.peerDependencies, pinned)]

\* files[pkg_idx]["content"] = json.dumps(pkg_obj, indent=2)
RewriteManifest(fs, pinned) ==
  LET k == PkgIdx(fs) IN
  [fs EXCEPT ![k].content = [txt |-> <<"{", "}">>, json |-> TRUE,
                             pkg |-> RewritePkg(fs[k].content.pkg, pinned), fmt |-> "dumps"]]

(***************************************************************************)
(* State.                                                                  *)
(***************************************************************************)
VARIABLES
  entry,            \* the operation running: "generate", "stream", "overlay", "repair", "resolve", ...
  pc,               \* its position
  opts,             \* payload["options"] and the followup answers of the payload
  env,              \* the environment: tools on PATH, configured budgets
  base_files,       \* payload["base_files"] and payload["asset_files"]
  base_files_map,   \* the overlay base: normalized path -> content
  followups,        \* the gate's result
  parsed_files,     \* parsed["files"] of the last generation call
  generated_files,  \* the input of the merge / dedupe step
  files,            \* sanitized_files / accumulated_files / the overlay delta
  events,           \* the events yielded by a stream
  res,              \* the resolver's locals
  dep_meta,         \* the resolver's result
  npm_cache,        \* the cache file: [present, mtime, data]
  now,              \* the clock
  first,            \* the resolver call that came before this one, if any
  llm,              \* call_structured_generation: its locals and the model's answers
  tmp_live,         \* scratch directories that exist
  tmp_made,         \* scratch directories ever created
  report,           \* validation_report
  rep,              \* attempt_repair's locals and result
  disk,             \* the regular files written by the operation
  calls,            \* counters of external calls
  outcome           \* "running", "response", "followups" or "error"

reqVars == <<entry, opts, env, base_files>>
fileVars == <<base_files_map, parsed_files, generated_files, files>>
depVars == <<res, dep_meta, npm_cache, now, first, llm>>
valVars == <<report, rep, disk>>
tmpVars == <<tmp_live, tmp_made>>
vars == <<entry, pc, opts, env, base_files, base_files_map, followups, parsed_files,
          generated_files, files, events, res, dep_meta, npm_cache, now, first, llm, tmp_live,
          tmp_made, report, rep, disk, calls, outcome>>

Bump(field) == [calls EXCEPT ![field] = @ + 1]

\* sent is the schema part of the prompt of each generation call so far
NoCalls == [gate |-> 0, gen |-> 0, batch |-> 0, repair |-> 0, validator |-> 0, val_fail |-> 0,
            io_fail |-> 0,
            registry |-> 0, search |-> 0, npm |-> 0, sent |-> <<>>]

\* the prompts of the generation calls: the whole schema, the components of one
\* chunk, or the scaffolding files
FullPrompt == [kind |-> "full", components |-> <<>>]

ChunkPrompt(chunk) == [kind |-> "chunk", components |-> chunk]

ScaffoldPrompt == [kind |-> "scaffold", components |-> <<>>]

(***************************************************************************)
(* Stream events (_yield_event, _stream_files_list).                       *)
(***************************************************************************)
STREAM_CHUNK_SZ == 2

Event(e, payload) == [event |-> e, payload |-> payload]

\* a payload that is a list or a string travels in a record of one field
Followups(fu) == Event("followups", [followups |-> fu])

Warning(w) == Event("warning", [message |-> w])

Min(a, b) == IF a < b THEN a ELSE b

\* range(0, len(content), STREAM_CHUNK_SZ)
ChunkCount(len) == (len + STREAM_CHUNK_SZ - 1) \div STREAM_CHUNK_SZ

\* a chunk loop that stops before a last chunk shorter than STREAM_CHUNK_SZ
FileChunksWholeOnly(path, txt) ==
  [k \in 1..(Len(txt) \div STREAM_CHUNK_SZ) |->
     Event("file_chunk",
           [path |-> path,
            chunk |-> SubSeq(txt, (k - 1) * STREAM_CHUNK_SZ + 1, k * STREAM_CHUNK_SZ),
            index |-> k - 1,
            final |-> (k + 1) * STREAM_CHUNK_SZ > Len(txt)])]

FileChunks(path, txt) ==
  [k \in 1..ChunkCount(Len(txt)) |->
     Event("file_chunk",
           [path |-> path,
            chunk |-> SubSeq(txt, (k - 1) * STREAM_CHUNK_SZ + 1, Min(k * STREAM_CHUNK_SZ, Len(txt))),
            index |-> k - 1,
            final |-> k * STREAM_CHUNK_SZ >= Len(txt)])]

\* the events of one file: its path is os.path.normpath(path)
StreamFile(f) ==
  <<Event("file_start", [path |-> NormPath(f.path)])>>
  \o FileChunks(NormPath(f.path), f.content.txt)
  \o <<Event("file_complete", [path |-> NormPath(f.path), size |-> Len(f.content.txt)])>>

RECURSIVE StreamFilesListOverlapping(_)
\* a stream that sends the file_start of the next file before the file_complete
\* of the current one
StreamFilesListOverlapping(fs) ==
  IF fs = <<>> THEN <<>>
  ELSE IF Len(fs) = 1 THEN StreamFile(fs[1])
  ELSE LET a == StreamFile(fs[1])
           b == StreamFilesListOverlapping(Tail(fs))
       IN  SubSeq(a, 1, Len(a) - 1) \o <<b[1], a[Len(a)]>> \o Tail(b)

RECURSIVE StreamFilesList(_)
StreamFilesList(fs) == IF fs = <<>> THEN <<>> ELSE StreamFile(fs[1]) \o StreamFilesList(Tail(fs))

\* what _stream_files_list appends to accumulated_files
Accumulate(fs) == [i \in 1..Len(fs) |-> File(NormPath(fs[i].path), fs[i].content)]

(***************************************************************************)
(* Dependency pinning: resolve_and_pin_files -> resolve_and_pin ->         *)
(* _resolve_with_npm / _resolve_with_registry, one action per external     *)
(* call (the npm subprocess, each registry request).                       *)
(***************************************************************************)
NoMeta == [ran |-> FALSE, pinned |-> <<>>, resolved |-> <<>>, warnings |-> <<>>]

NoSt == [cache |-> EmptyDict, pinned |-> <<>>, warnings |-> <<>>, resolved |-> <<>>]

NoRes == [deps |-> <<>>, names |-> <<>>, idx |-> 1, st |-> NoSt, via |-> "direct",
          npm |-> [pinned |-> <<>>, warnings |-> <<>>]]

NoCache == [present |-> FALSE, mtime |-> 0, data |-> EmptyDict]

\* _load_cache
LoadCache == IF npm_cache.present /\ now - npm_cache.mtime < NPM_CACHE_TTL THEN npm_cache.data ELSE EmptyDict

\* _save_cache
SaveCache(cache) == [present |-> TRUE, mtime |-> now, data |-> cache]

\* a "dependency" event per entry of dep_meta["resolved"], a "warning" event per
\* warning; stream_generate_project holds both loops twice
DepEvents(meta) ==
  LET deps == [i \in 1..Len(meta.resolved) |-> Event("dependency", meta.resolved[i])]
      warns == [i \in 1..Len(meta.warnings) |-> Warning(meta.warnings[i])]
  IN  deps \o warns \o deps \o warns

\* the "done" event: files_count = len(accumulated_files)
Done(n) == Event("done", [files_count |-> n])

\* a stream that reports done before the dependency events
AfterPinDoneFirst(newfiles, meta) ==
  /\ files' = newfiles
  /\ dep_meta' = meta
  /\ pc' = IF opts.validate THEN "mktmp" ELSE "done"
  /\ outcome' = IF opts.validate THEN outcome ELSE "response"
  /\ IF entry = "stream"
     THEN events' = events \o (IF opts.validate THEN <<>> ELSE <<Done(Len(newfiles))>>) \o DepEvents(meta)
     ELSE UNCHANGED events

\* what follows dependency pinning in each operation
AfterPin(newfiles, meta) ==
  /\ files' = newfiles
  /\ dep_meta' = meta
  /\ CASE entry = "resolve" ->
            /\ pc' = "done" /\ outcome' = "response" /\ UNCHANGED events
       [] entry = "stream" ->
            /\ outcome' = IF opts.validate THEN outcome ELSE "response"
            /\ pc' = IF opts.validate THEN "mktmp" ELSE "done"
            /\ events' = events \o DepEvents(meta) \o
                           (IF opts.validate THEN <<>> ELSE <<Done(Len(newfiles))>>)
       [] OTHER ->
            /\ pc' = IF opts.validate THEN "mktmp" ELSE "done"
            /\ outcome' = IF opts.validate THEN outcome ELSE "response"
            /\ UNCHANGED events

\* the end of resolve_and_pin_files once resolve_and_pin has returned
FinishPin(pinned, resolved, warnings) ==
  AfterPin(RewriteManifest(files, pinned),
           [ran |-> TRUE, pinned |-> pinned, resolved |-> resolved, warnings |-> warnings])

\* an except clause that swallows the exception without a trace
ResolutionFailedSilently == NoMeta

\* except Exception as e: dep_meta = {"warnings": [f"dependency resolution failed: {e}"]}
ResolutionFailed == [NoMeta EXCEPT !.warnings = <<<<"dependency resolution failed">>>>]

\* resolve_and_pin_files up to the first external call
PinStart ==
  /\ pc = "pin"
  /\ IF ManifestParseFails(files)
     THEN /\ AfterPin(files, [NoMeta EXCEPT !.warnings = <<<<"failed to parse package.json">>>>])
          /\ UNCHANGED <<res, tmpVars, calls>>
     ELSE IF ManifestIdxs(files) = {}
     THEN /\ AfterPin(files, NoMeta)
          /\ UNCHANGED <<res, tmpVars, calls>>
     ELSE IF ~IsObject(files[PkgIdx(files)].content)
     THEN \* AttributeError out of resolve_and_pin_files: generate_project and
          \* stream_generate_project catch it, a direct caller receives it
          /\ IF entry = "resolve"
             THEN /\ pc' = "done"
                  /\ outcome' = "error"
                  /\ UNCHANGED <<files, dep_meta, events>>
             ELSE AfterPin(files, ResolutionFailed)
          /\ UNCHANGED <<res, tmpVars, calls>>
     ELSE LET collected == CollectDeps(files[PkgIdx(files)].content.pkg) IN
       IF collected = <<>>
       THEN /\ FinishPin(<<>>, <<>>, <<>>)
            /\ UNCHANGED <<res, tmpVars, calls>>
       ELSE IF env.npm
       THEN \* _resolve_with_npm -> _run_npm_package_lock_only: tempfile.mkdtemp
            /\ pc' = "npm"
            /\ res' = [NoRes EXCEPT !.deps = collected, !.names = ODKeys(collected)]
            /\ tmp_live' = tmp_live \cup {"npm_resolve"}
            /\ tmp_made' = tmp_made \cup {"npm_resolve"}
            /\ UNCHANGED <<files, dep_meta, events, outcome, calls>>
       ELSE /\ pc' = "registry"
            /\ res' = [NoRes EXCEPT !.deps = collected, !.names = ODKeys(collected),
                                    !.st = [NoSt EXCEPT !.cache = LoadCache]]
            /\ UNCHANGED <<files, dep_meta, events, outcome, tmpVars, calls>>
  /\ UNCHANGED <<reqVars, base_files_map, parsed_files, generated_files, followups,
                 npm_cache, now, first, llm, valVars>>

\* _run_npm_package_lock_only after mkdtemp (the subprocess and the finally), and
\* _resolve_with_npm and resolve_and_pin up to the first registry request.
\* out.kind: "write_error" (an exception before the subprocess), "timeout",
\* "failed" (any {"ok": False} result), "lock" (a parsed lockfile)
NpmRun(NpmOutcomes) ==
  /\ pc = "npm"
  /\ \E out \in NpmOutcomes :
       LET pinned == IF out.kind = "lock" THEN ExtractPinnedFromLockfile(out.lock, res.names) ELSE <<>>
           warnings == IF out.kind = "lock" THEN <<>> ELSE <<<<"npm", out.kind>>>>
           missing == Missing(res.names, pinned)
       IN
       /\ tmp_live' = tmp_live \ {"npm_resolve"}
       /\ calls' = Bump("npm")
       /\ IF missing # <<>>
          THEN /\ pc' = "registry"
               /\ res' = [res EXCEPT !.names = missing, !.idx = 1, !.via = "fallback",
                                     !.st = [NoSt EXCEPT !.cache = LoadCache],
                                     !.npm = [pinned |-> pinned, warnings |-> warnings]]
               /\ UNCHANGED <<files, dep_meta, events, outcome>>
          ELSE /\ FinishPin(pinned, PinnedEntries(pinned), warnings)
               /\ UNCHANGED res
  /\ UNCHANGED <<reqVars, base_files_map, parsed_files, generated_files, followups,
                 npm_cache, now, first, llm, valVars, tmp_made>>

\* one iteration of the loop of _resolve_with_registry
RegistryLookup(RegOutcomes) ==
  /\ pc = "registry"
  /\ res.idx <= Len(res.names)
  /\ LET name == res.names[res.idx] IN
     IF CacheHit(res.st.cache, name, now)
     THEN /\ res' = [res EXCEPT !.idx = @ + 1,
                                !.st = RegistryIteration(res.st, name, [kind |-> "none"], now)]
          /\ UNCHANGED calls
     ELSE \E out \in RegOutcomes :
          /\ res' = [res EXCEPT !.idx = @ + 1, !.st = RegistryIteration(res.st, name, out, now)]
          /\ calls' = Bump("registry")
  /\ UNCHANGED <<reqVars, pc, fileVars, followups, events, dep_meta, npm_cache, now, first, llm,
                 tmpVars, valVars, outcome>>

\* the end of _resolve_with_registry (_save_cache) and of resolve_and_pin
RegistryFinish ==
  /\ pc = "registry"
  /\ res.idx > Len(res.names)
  /\ npm_cache' = SaveCache(res.st.cache)
  /\ IF res.via = "fallback"
     THEN FinishPin(ODUpdate(res.npm.pinned, res.st.pinned),
                    PinnedEntries(res.npm.pinned) \o res.st.resolved,
                    res.npm.warnings \o res.st.warnings)
     ELSE FinishPin(res.st.pinned, res.st.resolved, res.st.warnings)
  /\ UNCHANGED <<reqVars, base_files_map, parsed_files, generated_files, followups, res,
                 now, first, llm, tmpVars, valVars, calls>>

(***************************************************************************)
(* Initial states.  Boot is the state at the entry of an operation.        *)
(***************************************************************************)
\* ok is "true", "false" or None
NoReport == [checked |-> FALSE, ok |-> None, skipped |-> FALSE, repair_attempted |-> FALSE]

NoRep == [calls |-> 0, attempts |-> 0, ok |-> FALSE, applied |-> 0, repaired_files |-> <<>>,
          disk |-> {}, retries_left |-> 0]

\* no base_files list in the payload
NoBase == [is_list |-> FALSE, list |-> <<>>, assets |-> <<>>]

Base(list, assets) == [is_list |-> TRUE, list |-> list, assets |-> assets]

DefaultOpts == [request_questions |-> FALSE, validate |-> FALSE, previous_questions |-> {},
                answers |-> {}, max_questions |-> 5, min_urgency |-> 25, components |-> 0]

DefaultEnv == [npm |-> FALSE, tsc |-> TRUE, retries |-> 2, budget |-> 1, chunk_size |-> 2,
               curated |-> EmptyDict, api_key |-> TRUE]

\* call_structured_generation before it is entered: log is the answers of the
\* model so far, one per invocation
NoLlm == [max_retries |-> 0, debug |-> FALSE, attempt |-> 0, attempts_info |-> <<>>,
          last_exc |-> None, log |-> <<>>, status |-> "running",
          returned |-> [via |-> None, metadata |-> None, llm_debug |-> <<>>],
          raised |-> [attempts |-> 0, last |-> None]]

\* no resolver call came before
NoFirst == [ran |-> FALSE, pinned |-> <<>>, time |-> 0, calls |-> NoCalls]

Boot(e, p, o, v, b, f, cache, t) ==
  /\ entry = e
  /\ pc = p
  /\ opts = o
  /\ env = v
  /\ base_files = b
  /\ files = f
  /\ npm_cache = cache
  /\ now = t
  /\ first = NoFirst
  /\ llm = NoLlm
  /\ base_files_map = EmptyDict
  /\ followups = <<>>
  /\ parsed_files = <<>>
  /\ generated_files = <<>>
  /\ events = <<>>
  /\ res = NoRes
  /\ dep_meta = NoMeta
  /\ tmp_live = {}
  /\ tmp_made = {}
  /\ report = NoReport
  /\ rep = NoRep
  /\ disk = {}
  /\ calls = NoCalls
  /\ outcome = "running"

(***************************************************************************)
(* The orchestrator of core/codegen_agent.py: generate_project ("generate")*)
(* and stream_generate_project ("stream"), one action per external call.   *)
(***************************************************************************)
IsAgent == entry \in {"generate", "stream"}

\* a decline without its `return`: the followups go out and the request goes on
DeclineAndGoOn(fu) ==
  /\ pc' = "gen"
  /\ outcome' = "followups"
  /\ events' = IF entry = "stream" THEN Append(events, Followups(fu)) ELSE events

\* `if followups:` the stream yields one "followups" event and returns, the
\* single-shot operation returns files = [] with the followups
Decline(fu) ==
  /\ pc' = "done"
  /\ outcome' = "followups"
  /\ events' = IF entry = "stream" THEN Append(events, Followups(fu)) ELSE events

\* the followup gate of generate_project / stream_generate_project
Gate(GateOutputs) ==
  /\ pc = "gate"
  /\ IsAgent
  /\ IF ~opts.request_questions
     THEN /\ pc' = "gen"
          /\ UNCHANGED <<followups, events, calls, outcome>>
     ELSE \E raw \in GateOutputs :
          LET fu == generate_followup_questions(raw, opts) IN
          /\ followups' = fu
          /\ calls' = Bump("gate")
          /\ IF fu # <<>>
             THEN Decline(fu)
             ELSE /\ pc' = "gen"
                  /\ UNCHANGED <<events, outcome>>
  /\ UNCHANGED <<reqVars, fileVars, depVars, tmpVars, valVars>>

\* the asset paths of the payload, normalized; empty and rejected ones are left out
NormalizedAssets(assets) == {safe_normalize(a) : a \in Range(assets)} \ {NoPath, <<>>}

\* stream_generate_project: the base map, an asset's content being ""
RECURSIVE BuildStreamBaseMap(_, _, _, _)
BuildStreamBaseMap(bfs, assets, i, m) ==
  IF i > Len(bfs) THEN m
  ELSE LET np == normalize_path(bfs[i].path) IN
    BuildStreamBaseMap(bfs, assets, i + 1,
                       Put(m, np, IF np \in assets THEN Text(<<>>) ELSE bfs[i].content))

\* the outcome of a generation call: it raised after its retries, or parsed["files"]
\* what call_structured_generation hands to its caller.  shape is "full" (files
\* is a list, metadata a dict), "no_files" (GenerateResponseModel without files, or
\* the {"raw": ...} fallback: files is missing or null) or "no_metadata" (an
\* instance of GenerateResponseModel whose optional metadata is None: .dict()
\* holds the key, so setdefault("metadata", {}) leaves the None)
GenFailed == [failed |-> TRUE, files |-> <<>>, shape |-> "full"]

GenReturned(fs) == [failed |-> FALSE, files |-> fs, shape |-> "full"]

GenShaped(shape, fs) == [failed |-> FALSE, files |-> fs, shape |-> shape]

\* parsed.get("files", []) or []
ParsedFiles(out) == IF out.shape = "no_files" THEN <<>> ELSE out.files

\* parsed.get("metadata", {}).get("warnings"): None has no get
MetadataRaises(out) == out.shape = "no_metadata"

\* generate_project sends the whole schema whatever its components are;
\* stream_generate_project does so under `if isinstance(payload.get("base_files"),
\* list)`, whose else branch is the scaffolding call
AgentPrompt ==
  IF entry = "generate" \/ base_files.is_list THEN FullPrompt ELSE ScaffoldPrompt

\* the generation call, the overlay delta and the merge / dedupe step (generate),
\* or the file events (stream)
GenerateCall(GenOutputs) ==
  /\ pc = "gen"
  /\ IsAgent
  /\ \E out \in GenOutputs :
       LET bmap == IF ~base_files.is_list THEN EmptyDict
                   ELSE IF entry = "stream"
                        THEN BuildStreamBaseMap(base_files.list, NormalizedAssets(base_files.assets),
                                                1, EmptyDict)
                        ELSE BuildBaseMap(base_files.list, 1, EmptyDict)
           emitted == IF DOMAIN bmap # {} THEN ComputeDeltaFiles(ParsedFiles(out), bmap)
                      ELSE ParsedFiles(out)
       IN
       /\ calls' = [calls EXCEPT !.gen = @ + 1, !.sent = Append(@, AgentPrompt)]
       /\ base_files_map' = bmap
       /\ IF out.failed
          THEN /\ pc' = "done"
               /\ outcome' = "error"
               /\ UNCHANGED <<parsed_files, generated_files, files, events>>
          ELSE IF MetadataRaises(out)
          THEN \* AttributeError after the files were taken in (and streamed)
               /\ pc' = "done"
               /\ outcome' = "error"
               /\ parsed_files' = ParsedFiles(out)
               /\ generated_files' = emitted
               /\ IF entry = "generate"
                  THEN UNCHANGED <<files, events>>
                  ELSE /\ files' = Accumulate(emitted)
                       /\ events' = events \o StreamFilesList(emitted)
          ELSE /\ parsed_files' = ParsedFiles(out)
               /\ generated_files' = emitted
               /\ IF entry = "generate"
                  THEN /\ files' = Dedupe(emitted)
                       /\ pc' = "pin"
                       /\ UNCHANGED <<events, outcome>>
                  ELSE /\ files' = Accumulate(emitted)
                       /\ IF emitted = <<>>
                          THEN /\ pc' = "done"
                               /\ outcome' = "response"
                               /\ events' = Append(events, Done(0))
                          ELSE /\ pc' = "pin"
                               /\ outcome' = outcome
                               /\ events' = events \o StreamFilesList(emitted)
  /\ UNCHANGED <<reqVars, followups, depVars, tmpVars, valVars>>

(***************************************************************************)
(* Validation and repair (core/validator.py and its callers).              *)
(***************************************************************************)
AiGen == TmpDir("ai_gen")

\* tempfile.mkdtemp(prefix="ai_gen_")
MkTmp ==
  /\ pc = "mktmp"
  /\ pc' = "validate"
  /\ tmp_live' = tmp_live \cup {"ai_gen"}
  /\ tmp_made' = tmp_made \cup {"ai_gen"}
  /\ UNCHANGED <<reqVars, fileVars, followups, events, depVars, valVars, calls, outcome>>

\* the checks of run_validations, by the key of their result in "details"
Checks == {"tsc", "pytest", "go_vet"}

\* run_tsc_check, run_pytests, run_go_vet: shutil.which finds the tool or not;
\* answer is "pass" for a return code of 0
RunCheck(installed, answer) ==
  IF ~installed THEN [ok |-> FALSE, skipped |-> TRUE]
  ELSE [ok |-> answer = "pass", skipped |-> FALSE]

\* run_validations(workdir, options): requested[c] is the option flag of check c
RunValidations(requested, installed, answers) ==
  LET asked == {c \in Checks : requested[c]}
      results == [c \in asked |-> RunCheck(installed[c], answers[c])]
      any_checked == asked # {}
      overall_ok == \A c \in asked : results[c].ok \/ results[c].skipped
  IN [checked |-> any_checked,
      ok |-> IF any_checked THEN (IF overall_ok THEN "true" ELSE "false") ELSE None,
      skipped |-> ~any_checked]

OnlyTsc == [c \in Checks |-> c = "tsc"]

\* run_validations(tmpdir, {"validate_tsc": True}); v is what tsc answers when it
\* is installed.  A skipped tool leaves overall_ok True.
run_validations(v) ==
  RunValidations(OnlyTsc, [c \in Checks |-> env.tsc], [c \in Checks |-> IF v = "fail" THEN "fail" ELSE "pass"])

\* run_validations called on its own
Validations ==
  /\ entry = "validations"
  /\ pc = "validate"
  /\ LET r == RunValidations(opts, env.installed, env.answers) IN
       report' = [report EXCEPT !.checked = r.checked, !.ok = r.ok, !.skipped = r.skipped]
  /\ pc' = "done"
  /\ outcome' = "response"
  /\ UNCHANGED <<reqVars, fileVars, followups, events, depVars, tmpVars, rep, disk, calls>>

ValidatorCalls(r) ==
  [calls EXCEPT !.validator = @ + 1, !.val_fail = IF r.ok = "false" THEN @ + 1 ELSE @]

\* the operation ends: shutil.rmtree in the finally, then the response / last events
Finish(oc, evs) ==
  /\ pc' = "done"
  /\ outcome' = oc
  /\ tmp_live' = tmp_live \ {"ai_gen"}
  /\ events' = events \o evs

PipelineError == Warning(<<"validation/repair pipeline error">>)

\* an exception path without the `finally`: the scratch directory stays
RaiseKeepsTmp ==
  /\ pc' = "done"
  /\ outcome' = IF entry = "stream" THEN "response" ELSE "error"
  /\ tmp_live' = tmp_live
  /\ events' = IF entry = "stream" THEN events \o <<PipelineError, Done(Len(files))>> ELSE events

\* an exception inside the try block that holds the scratch directory:
\* generate_project lets it through, stream_generate_project turns it into a warning
Raise ==
  IF entry = "stream" THEN Finish("response", <<PipelineError, Done(Len(files))>>)
  ELSE Finish("error", <<>>)

\* io_fail counts the writes that the environment (not the path) made fail
IoFailure(v) == IF v = "write_error" THEN Bump("io_fail") ELSE calls

\* the files are written to the scratch directory and the validators run
Validate(ValOutcomes) ==
  /\ pc = "validate"
  /\ IsAgent
  /\ \E v \in ValOutcomes :
       LET w == WriteAll(disk, AiGen, files, 1)
           r == run_validations(v) IN
       /\ disk' = w.disk
       /\ IF v = "write_error" \/ ~w.ok
          THEN /\ Raise
               /\ calls' = IoFailure(v)
               /\ UNCHANGED report
          ELSE /\ report' = [report EXCEPT !.checked = r.checked, !.ok = r.ok, !.skipped = r.skipped]
               /\ calls' = ValidatorCalls(r)
               /\ IF r.checked /\ r.ok = "false"
                  THEN /\ pc' = "repair"
                       /\ events' = IF entry = "stream" THEN Append(events, Event("validation", r))
                                    ELSE events
                       /\ UNCHANGED <<outcome, tmp_live>>
                  ELSE Finish("response",
                              IF entry = "stream" THEN <<Event("validation", r), Done(Len(files))>>
                              ELSE <<>>)
  /\ UNCHANGED <<reqVars, fileVars, followups, depVars, tmp_made, rep>>

\* the outcome of the repair generation call: it raised, or parsed["files"]; io
\* tells whether the environment lets attempt_repair write files at all
RepairFailed == [failed |-> TRUE, files |-> <<>>, io |-> TRUE]

RepairReturned(fs, io) == [failed |-> FALSE, files |-> fs, io |-> io]

\* an attempt_repair that calls the model whatever its budget is
AttemptRepairUnbounded(budget, out, d, dir) ==
  IF out.failed
  THEN [NoRep EXCEPT !.calls = 1, !.attempts = 1, !.disk = d]
  ELSE LET candidate_files == SelectSeq(out.files, LAMBDA f : f.path # <<>>)
           a == IF out.io THEN ApplyRepair(d, dir, candidate_files, 1, 0)
                ELSE [applied |-> 0, disk |-> d] IN
       [NoRep EXCEPT !.calls = 1, !.attempts = 1, !.repaired_files = candidate_files,
                     !.applied = a.applied, !.ok = a.applied > 0, !.disk = a.disk]

\* attempt_repair(workdir, output, files, {"repair_attempts": budget}): every path
\* through the body of `for att in range(attempts_allowed)` returns
AttemptRepair(budget, out, d, dir) ==
  IF budget <= 0
  THEN [NoRep EXCEPT !.disk = d]
  ELSE IF out.failed
  THEN [NoRep EXCEPT !.calls = 1, !.attempts = 1, !.disk = d]
  ELSE LET candidate_files == SelectSeq(out.files, LAMBDA f : f.path # <<>>) IN
    IF candidate_files = <<>>
    THEN [NoRep EXCEPT !.calls = 1, !.attempts = 1, !.disk = d]
    ELSE LET a == IF out.io THEN ApplyRepair(d, dir, candidate_files, 1, 0)
                  ELSE [applied |-> 0, disk |-> d] IN
         [NoRep EXCEPT !.calls = 1, !.attempts = 1, !.repaired_files = candidate_files,
                       !.applied = a.applied, !.ok = a.applied > 0, !.disk = a.disk]

\* attempt_repair and what its caller does with the result: generate_project and
\* stream_generate_project pass "repair_attempts": 1; entry "repair" is a call of
\* attempt_repair itself, with the configured budget
Repair(RepairOutputs) ==
  /\ pc = "repair"
  /\ IsAgent \/ entry = "repair"
  /\ \E out \in RepairOutputs :
       LET r == IF entry = "repair" THEN AttemptRepair(env.budget, out, disk, TmpDir("work"))
                ELSE AttemptRepair(1, out, disk, AiGen) IN
       /\ rep' = r
       /\ disk' = r.disk
       /\ calls' = [calls EXCEPT !.repair = @ + r.calls]
       /\ IF entry = "repair"
          THEN /\ pc' = "done"
               /\ outcome' = "response"
               /\ UNCHANGED <<files, events, tmp_live>>
          ELSE IF entry = "generate"
          THEN /\ files' = MergeRepaired(files, r.repaired_files, 1)
               /\ pc' = "revalidate"
               /\ UNCHANGED <<events, outcome, tmp_live>>
          ELSE /\ files' = files
               /\ IF r.ok
                  THEN /\ pc' = "revalidate"
                       /\ events' = Append(events, Event("repair", r))
                       /\ UNCHANGED <<outcome, tmp_live>>
                  ELSE Finish("response", <<Event("repair", r), Done(Len(files))>>)
  /\ UNCHANGED <<reqVars, base_files_map, parsed_files, generated_files, followups, depVars,
                 tmp_made, report>>

\* validation after the repair: generate_project rewrites the merged files first
Revalidate(ValOutcomes) ==
  /\ pc = "revalidate"
  /\ IsAgent
  /\ \E v \in ValOutcomes :
       LET w == IF entry = "generate" THEN WriteAll(disk, AiGen, files, 1)
                ELSE [ok |-> TRUE, disk |-> disk]
           r == run_validations(v) IN
       /\ disk' = w.disk
       /\ IF (entry = "generate" /\ v = "write_error") \/ ~w.ok
          THEN /\ Raise
               /\ calls' = IoFailure(v)
               /\ UNCHANGED report
          ELSE /\ calls' = ValidatorCalls(r)
               /\ IF entry = "generate"
                  THEN /\ report' = [checked |-> r.checked, ok |-> r.ok, skipped |-> r.skipped,
                                     repair_attempted |-> r.ok # "true"]
                       /\ Finish("response", <<>>)
                  ELSE /\ report' = report
                       /\ Finish("response", <<Event("validation", r), Done(Len(files))>>)
  /\ UNCHANGED <<reqVars, fileVars, followups, depVars, tmp_made, rep>>

(***************************************************************************)
(* The overlay endpoint (api/generate.py, generate_overlay).               *)
(***************************************************************************)
OverlayWs == TmpDir("overlay_ws")

\* the file names with one of binary_exts as extension
BinaryNames == {"logo.png"}

\* os.path.splitext(sp)[1].lower() in binary_exts
HasBinaryExt(sp) == sp # <<>> /\ sp[Len(sp)] \in BinaryNames

\* the loop over base_files: st is [ok, map, disk], ok FALSE once a write raised
RECURSIVE OverlayBase(_, _, _, _)
OverlayBase(bfs, assets, i, st) ==
  IF i > Len(bfs) \/ ~st.ok THEN st
  ELSE LET sp == safe_normalize(bfs[i].path) IN
    IF sp = NoPath THEN OverlayBase(bfs, assets, i + 1, st)
    ELSE IF sp \in assets
    THEN OverlayBase(bfs, assets, i + 1, [st EXCEPT !.map = Put(@, sp, Text(<<>>))])
    ELSE IF Basename(sp) = Manifest THEN OverlayBase(bfs, assets, i + 1, st)
    ELSE LET t == WriteTarget(OverlayWs, sp) IN
      IF WriteRaises(st.disk, OverlayWs, t) THEN [st EXCEPT !.ok = FALSE]
      ELSE OverlayBase(bfs, assets, i + 1,
                       [st EXCEPT !.map = Put(@, sp, bfs[i].content), !.disk = @ \cup {t}])

\* the loop over the files of the model output: a binary file reaches
\* warnings.append(...) before `warnings` is assigned, which raises
RECURSIVE OverlayCandidates(_, _, _)
OverlayCandidates(fs, i, st) ==
  IF i > Len(fs) \/ st.raised THEN st
  ELSE LET sp == safe_normalize(fs[i].path) IN
    IF sp = NoPath THEN OverlayCandidates(fs, i + 1, st)
    ELSE IF HasBinaryExt(sp) THEN [st EXCEPT !.raised = TRUE]
    ELSE IF Basename(sp) = Manifest THEN OverlayCandidates(fs, i + 1, st)
    ELSE OverlayCandidates(fs, i + 1, [st EXCEPT !.files = Append(@, File(sp, fs[i].content))])

\* "Compute delta"
OverlayDelta(cands, base_map) ==
  SelectSeq(cands, LAMBDA cf : cf.path \notin DOMAIN base_map \/ base_map[cf.path] # cf.content)

\* tempfile.mkdtemp(prefix="overlay_ws_")
OverlayStart ==
  /\ entry = "overlay"
  /\ pc = "overlay"
  /\ pc' = "overlay_call"
  /\ tmp_live' = tmp_live \cup {"overlay_ws"}
  /\ tmp_made' = tmp_made \cup {"overlay_ws"}
  /\ UNCHANGED <<reqVars, fileVars, followups, events, depVars, valVars, calls, outcome>>

\* the body of the try block and its finally; io FALSE: the environment fails a write
OverlayCall(GenOutputs) ==
  /\ entry = "overlay"
  /\ pc = "overlay_call"
  /\ \E out \in GenOutputs, io \in BOOLEAN :
       LET b == OverlayBase(base_files.list, NormalizedAssets(base_files.assets), 1,
                            [ok |-> io, map |-> EmptyDict, disk |-> disk])
           c == OverlayCandidates(out.files, 1, [raised |-> FALSE, files |-> <<>>]) IN
       /\ pc' = "done"
       /\ tmp_live' = tmp_live \ {"overlay_ws"}
       /\ disk' = b.disk
       /\ IF ~b.ok
          THEN /\ outcome' = "error"
               /\ UNCHANGED <<fileVars, calls>>
          ELSE /\ calls' = Bump("gen")
               /\ base_files_map' = b.map
               /\ IF out.failed
                  THEN /\ outcome' = "response"
                       /\ files' = <<>>
                       /\ UNCHANGED <<parsed_files, generated_files>>
                  ELSE /\ parsed_files' = out.files
                       /\ generated_files' = c.files
                       /\ files' = IF c.raised THEN files ELSE OverlayDelta(c.files, b.map)
                       /\ outcome' = IF c.raised THEN "error" ELSE "response"
  /\ UNCHANGED <<reqVars, followups, events, depVars, tmp_made, report, rep>>

(***************************************************************************)
(* The legacy orchestrator of core/chain.py: generate_project_files        *)
(* ("chain_generate") and stream_generate_project ("chain_stream", whose   *)
(* last step is a call of generate_project_files, "chain_stream_final").   *)
(***************************************************************************)
IsChain == entry \in {"chain_generate", "chain_stream", "chain_stream_final"}

\* generate_project_files returns (or raises, oc = "error"): the stream that called
\* it for its file count emits "done"
ChainReturn(fs, oc) ==
  /\ pc' = "done"
  /\ files' = fs
  /\ IF entry = "chain_stream_final"
     THEN /\ outcome' = "response"
          /\ events' = Append(events, Done(IF oc = "error" THEN 0 ELSE Len(fs)))
     ELSE /\ outcome' = oc
          /\ UNCHANGED events

\* the decline condition with its test of followup_answers inverted
ChainDeclinesOnAnswers(fu) == fu # <<>> /\ opts.answers # {}

\* `if normalized and (not followup_answers or len(followup_answers.keys()) == 0)`
ChainDeclines(fu) == fu # <<>> /\ opts.answers = {}

\* the diagnostic call and the decision on its followups
ChainGate(GateOutputs) ==
  /\ pc = "gate"
  /\ IsChain
  /\ \E raw \in GateOutputs :
       LET fu == chain_followups(raw, opts) IN
       /\ followups' = fu
       /\ calls' = Bump("gate")
       /\ IF ChainDeclines(fu)
          THEN IF entry = "chain_stream"
               THEN /\ pc' = "done"
                    /\ outcome' = "followups"
                    /\ events' = Append(events, Followups(fu))
                    /\ UNCHANGED files
               ELSE ChainReturn(<<>>, "followups")
          ELSE /\ pc' = "gen"
               /\ UNCHANGED <<files, events, outcome>>
  /\ UNCHANGED <<reqVars, base_files_map, parsed_files, generated_files, depVars, tmpVars, valVars>>

\* the components of a schema, numbered
Units(n) == [i \in 1..n |-> i]

RECURSIVE ChunksFrom(_, _, _)
\* for i in range(0, len(components), chunk_size): yield components[i:i + chunk_size]
ChunksFrom(components, chunk_size, i) ==
  IF i >= Len(components) THEN <<>>
  ELSE <<SubSeq(components, i + 1,
                IF i + chunk_size < Len(components) THEN i + chunk_size ELSE Len(components))>>
       \o ChunksFrom(components, chunk_size, i + chunk_size)

chunk_components(components, chunk_size) == ChunksFrom(components, chunk_size, 0)

\* len(list(chunk_components(components, CHUNK_SIZE)))
ChunkCalls(n, chunk_size) == Len(chunk_components(Units(n), chunk_size))

\* the prompt of the next generation call of chain.py, batch calls being done
ChainPrompt(batch) ==
  IF opts.components = 0 THEN FullPrompt
  ELSE LET chunks == chunk_components(Units(opts.components), env.chunk_size) IN
       IF batch < Len(chunks) THEN ChunkPrompt(chunks[batch + 1]) ELSE ScaffoldPrompt

\* the generation calls of a request: one full call, or the chunks and the scaffold
GenCalls(n, chunk_size) == IF n = 0 THEN 1 ELSE ChunkCalls(n, chunk_size) + 1

\* one generation call of the loop; after the last one the dedupe step
\* (generate_project_files) or the trailing generate_project_files (stream), whose
\* pin / validation block raises NameError on accumulated_files and is skipped
ChainGenCall(GenOutputs) ==
  /\ pc = "gen"
  /\ IsChain
  /\ \E out \in GenOutputs :
       LET last == calls.batch + 1 >= GenCalls(opts.components, env.chunk_size) IN
       IF out.failed
       THEN /\ calls' = [calls EXCEPT !.gen = @ + 1, !.sent = Append(@, ChainPrompt(calls.batch))]
            /\ ChainReturn(files, "error")
            /\ UNCHANGED <<entry, parsed_files, generated_files>>
       ELSE /\ parsed_files' = out.files
            /\ IF entry = "chain_stream"
               THEN /\ events' = events \o StreamFilesList(out.files)
                    /\ calls' = [calls EXCEPT !.gen = @ + 1, !.batch = IF last THEN 0 ELSE @ + 1,
                                              !.sent = Append(@, ChainPrompt(calls.batch))]
                    /\ entry' = IF last THEN "chain_stream_final" ELSE entry
                    /\ pc' = IF last THEN "gate" ELSE "gen"
                    /\ UNCHANGED <<generated_files, files, outcome>>
               ELSE /\ calls' = [calls EXCEPT !.gen = @ + 1, !.batch = @ + 1,
                                              !.sent = Append(@, ChainPrompt(calls.batch))]
                    /\ generated_files' = generated_files \o out.files
                    /\ files' = IF last THEN Dedupe(generated_files') ELSE files
                    /\ pc' = IF last THEN "chain_pin" ELSE "gen"
                    /\ UNCHANGED <<entry, events, outcome>>
  /\ UNCHANGED <<opts, env, base_files, base_files_map, followups, depVars, tmpVars, valVars>>

\* resolve_and_pin_dependencies: the first manifest of the list (the loop breaks)
FirstManifest(fs) == CHOOSE i \in ManifestIdxs(fs) : \A j \in ManifestIdxs(fs) : i <= j

\* the (section, name, requested) entries in the order the sections are walked
SectionEntries(pkg, sec) == [i \in 1..Len(pkg[sec]) |-> <<sec, pkg[sec][i][1], pkg[sec][i][2]>>]

ManifestEntries(pkg) ==
  SectionEntries(pkg, "dependencies") \o SectionEntries(pkg, "devDependencies")
  \o SectionEntries(pkg, "peerDependencies")

\* requested.lstrip("^~") on the ranges of the model
StripRange(requested) == IF requested = "^1" THEN "1" ELSE requested

\* _pin_dep_version once the curated map and the registry gave nothing
FallbackVersion(requested) == IF StripRange(requested) # "" THEN StripRange(requested) ELSE "1.0.0"

\* get_latest_npm_version: what a registry answer yields
ChainLatest(out) ==
  IF out.kind # "200" THEN None
  ELSE IF out.data.latest # None THEN out.data.latest
  ELSE out.data.version

\* what follows dependency pinning in generate_project_files
AfterChainPin(newfiles, meta) ==
  /\ dep_meta' = meta
  /\ IF opts.validate
     THEN /\ files' = newfiles
          /\ pc' = "mktmp"
          /\ UNCHANGED <<events, outcome>>
     ELSE ChainReturn(newfiles, "response")

\* pkg_obj[sec] = pinned for each section with entries; json.dumps(pkg_obj, indent=2)
ChainRewrite(fs, pinned) ==
  LET k == FirstManifest(fs)
      sec_of(sec) == LET mine == SelectSeq(pinned, LAMBDA e : e[1] = sec)
                     IN  [i \in 1..Len(mine) |-> <<mine[i][2], mine[i][3]>>] IN
  [fs EXCEPT ![k].content =
     [txt |-> <<"{", "}">>, json |-> TRUE, fmt |-> "dumps",
      pkg |-> [dependencies |-> sec_of("dependencies"),
               devDependencies |-> sec_of("devDependencies"),
               peerDependencies |-> sec_of("peerDependencies")]]]

\* resolve_and_pin_dependencies up to the first dependency
ChainPinStart ==
  /\ pc = "chain_pin"
  /\ IF ManifestIdxs(files) = {}
     THEN /\ AfterChainPin(files, NoMeta)
          /\ UNCHANGED res
     ELSE IF ~Parses(files[FirstManifest(files)].content)
     THEN /\ AfterChainPin(files, [NoMeta EXCEPT !.warnings = <<<<"failed to parse package.json">>>>])
          /\ UNCHANGED res
     ELSE /\ pc' = "chain_lookup"
          /\ res' = [NoRes EXCEPT !.names = ManifestEntries(files[FirstManifest(files)].content.pkg)]
          /\ UNCHANGED <<files, dep_meta, events, outcome>>
  /\ UNCHANGED <<reqVars, base_files_map, parsed_files, generated_files, followups, npm_cache,
                 now, first, llm, tmpVars, valVars, calls>>

\* _pin_dep_version for one dependency: the curated map, then the cache and the
\* registry (get_latest_npm_version), then the fallback
ChainLookup(RegOutcomes) ==
  /\ pc = "chain_lookup"
  /\ res.idx <= Len(res.names)
  /\ LET sec == res.names[res.idx][1]
         name == res.names[res.idx][2]
         requested == res.names[res.idx][3]
         cache == LoadCache
         Pinned(pv) == [res EXCEPT !.idx = @ + 1,
                                   !.st.pinned = Append(@, <<sec, name, pv>>),
                                   !.st.resolved = Append(@, [name |-> name, version |-> pv,
                                                              origin |-> "curated_or_registry"])]
     IN
     IF name \in DOMAIN env.curated
     THEN /\ res' = Pinned(env.curated[name])
          /\ UNCHANGED <<calls, npm_cache>>
     ELSE IF CacheHit(cache, name, now)
     THEN /\ res' = Pinned(IF cache[name].ver # None THEN cache[name].ver
                           ELSE FallbackVersion(requested))
          /\ UNCHANGED <<calls, npm_cache>>
     ELSE \E out \in RegOutcomes :
          LET latest == ChainLatest(out) IN
          /\ calls' = Bump("registry")
          /\ res' = Pinned(IF latest # None THEN latest ELSE FallbackVersion(requested))
          /\ npm_cache' = IF out.kind = "200" /\ (latest # None \/ out.data.has_version)
                          THEN SaveCache(Put(cache, name, [ver |-> latest, ts |-> now]))
                          ELSE npm_cache
  /\ UNCHANGED <<reqVars, pc, fileVars, followups, events, dep_meta, now, first, llm, tmpVars, valVars,
                 outcome>>

\* the manifest is rewritten and resolve_and_pin_dependencies returns
ChainPinFinish ==
  /\ pc = "chain_lookup"
  /\ res.idx > Len(res.names)
  /\ AfterChainPin(ChainRewrite(files, res.st.pinned),
                   [ran |-> TRUE, pinned |-> <<>>, resolved |-> res.st.resolved, warnings |-> <<>>])
  /\ UNCHANGED <<reqVars, base_files_map, parsed_files, generated_files, followups, res,
                 npm_cache, now, first, llm, tmpVars, valVars, calls>>

\* chain.py run_tsc_check: v is what tsc answers when it is installed
run_tsc_check(v) ==
  IF ~env.tsc THEN [ok |-> FALSE, skipped |-> TRUE]
  ELSE [ok |-> v = "pass", skipped |-> FALSE]

TscCalls(r) ==
  [calls EXCEPT !.validator = @ + 1, !.val_fail = IF ~r.ok /\ ~r.skipped THEN @ + 1 ELSE @]

\* the files are written and tsc runs; a failing check starts the repair loop
ChainValidate(ValOutcomes) ==
  /\ pc = "validate"
  /\ IsChain
  /\ \E v \in ValOutcomes :
       LET w == WriteAll(disk, AiGen, files, 1)
           r == run_tsc_check(v) IN
       /\ disk' = w.disk
       /\ IF v = "write_error" \/ ~w.ok
          THEN /\ ChainReturn(files, "error")
               /\ tmp_live' = tmp_live \ {"ai_gen"}
               /\ calls' = IoFailure(v)
               /\ UNCHANGED <<report, rep>>
          ELSE /\ report' = [report EXCEPT !.checked = TRUE, !.skipped = r.skipped,
                                           !.ok = IF r.ok THEN "true" ELSE "false"]
               /\ calls' = TscCalls(r)
               /\ IF ~r.ok /\ ~r.skipped
                  THEN /\ pc' = "chain_repair"
                       /\ rep' = [NoRep EXCEPT !.retries_left = env.retries]
                       /\ UNCHANGED <<files, events, outcome, tmp_live>>
                  ELSE /\ ChainReturn(files, "response")
                       /\ tmp_live' = tmp_live \ {"ai_gen"}
                       /\ UNCHANGED rep
  /\ UNCHANGED <<reqVars, base_files_map, parsed_files, generated_files, followups, depVars,
                 tmp_made>>

\* one iteration of `while retries_left > 0`: the repair call, the merge, the
\* rewrite and tsc; an exception in any of them is swallowed
ChainRepair(RepairOutputs, ValOutcomes) ==
  /\ pc = "chain_repair"
  /\ rep.retries_left > 0
  /\ \E out \in RepairOutputs, v \in ValOutcomes :
       LET merged == MergeRepaired(files, out.files, 1)
           w == WriteAll(disk, AiGen, merged, 1)
           r == run_tsc_check(v) IN
       IF out.failed
       THEN /\ calls' = Bump("repair")
            /\ rep' = [rep EXCEPT !.retries_left = @ - 1, !.attempts = @ + 1,
                             !.repaired_files = out.files]
            /\ UNCHANGED <<pc, files, events, outcome, report, disk, tmp_live>>
       ELSE IF v = "write_error" \/ ~w.ok
       THEN /\ calls' = [IoFailure(v) EXCEPT !.repair = @ + 1]
            /\ rep' = [rep EXCEPT !.retries_left = @ - 1, !.attempts = @ + 1,
                             !.repaired_files = out.files]
            /\ files' = merged
            /\ disk' = w.disk
            /\ UNCHANGED <<pc, events, outcome, report, tmp_live>>
       ELSE /\ calls' = [TscCalls(r) EXCEPT !.repair = @ + 1]
            /\ disk' = w.disk
            /\ IF r.ok
               THEN /\ report' = [report EXCEPT !.ok = "true"]
                    /\ rep' = [rep EXCEPT !.attempts = @ + 1, !.repaired_files = out.files]
                    /\ ChainReturn(merged, "response")
                    /\ tmp_live' = tmp_live \ {"ai_gen"}
               ELSE /\ rep' = [rep EXCEPT !.retries_left = @ - 1, !.attempts = @ + 1,
                             !.repaired_files = out.files]
                    /\ files' = merged
                    /\ UNCHANGED <<pc, events, outcome, report, tmp_live>>
  /\ UNCHANGED <<reqVars, base_files_map, parsed_files, generated_files, followups, depVars,
                 tmp_made>>

\* the loop ends with its budget used up
ChainRepairEnd ==
  /\ pc = "chain_repair"
  /\ rep.retries_left <= 0
  /\ ChainReturn(files, "response")
  /\ tmp_live' = tmp_live \ {"ai_gen"}
  /\ UNCHANGED <<reqVars, base_files_map, parsed_files, generated_files, followups, depVars,
                 tmp_made, valVars, calls>>

(***************************************************************************)
(* The model client (core/llm_client.py, call_structured_generation): one  *)
(* action per invocation of the model.                                     *)
(***************************************************************************)
\* what an invocation gives: an exception, or an instance of the structured model
\* (has_dict: it has .dict(), otherwise its __dict__ is taken; metadata: the value
\* under its "metadata" key, Absent when it has no such key)
Absent == "<absent>"

InvokeRaised(e) == [raised |-> TRUE, error |-> e]

InvokeReturned(has_dict, metadata) ==
  [raised |-> FALSE, has_dict |-> has_dict, metadata |-> metadata]

TotalAttempts(l) == 1 + l.max_retries

\* result.dict() / result.__dict__, parsed.setdefault("metadata", {}), llm_debug
Parsed(l, out, info) ==
  [via |-> IF out.has_dict THEN "dict" ELSE "__dict__",
   metadata |-> IF out.metadata = Absent THEN "{}" ELSE out.metadata,
   llm_debug |-> IF l.debug THEN info ELSE <<>>]

\* the try branch of one iteration: the invocation returned
AttemptReturned(l, out) ==
  LET info == Append(l.attempts_info, [attempt |-> l.attempt, error |-> None]) IN
  [l EXCEPT !.attempts_info = info,
            !.log = Append(@, out),
            !.status = "returned",
            !.returned = Parsed(l, out, info)]

\* an except branch that goes round once more after the last attempt
AttemptFailedOneMore(l, out) ==
  [l EXCEPT !.last_exc = out.error,
            !.attempts_info = Append(@, [attempt |-> l.attempt, error |-> out.error]),
            !.log = Append(@, out),
            !.attempt = IF l.attempt <= TotalAttempts(l) THEN @ + 1 ELSE @,
            !.status = IF l.attempt <= TotalAttempts(l) THEN @ ELSE "raised",
            !.raised = IF l.attempt <= TotalAttempts(l) THEN @
                       ELSE [attempts |-> TotalAttempts(l), last |-> out.error]]

\* the except branch of one iteration, and the raise after the loop
AttemptFailed(l, out) ==
  [l EXCEPT !.last_exc = out.error,
            !.attempts_info = Append(@, [attempt |-> l.attempt, error |-> out.error]),
            !.log = Append(@, out),
            !.attempt = IF l.attempt < TotalAttempts(l) THEN @ + 1 ELSE @,
            !.status = IF l.attempt < TotalAttempts(l) THEN @ ELSE "raised",
            !.raised = IF l.attempt < TotalAttempts(l) THEN @
                       ELSE [attempts |-> TotalAttempts(l), last |-> out.error]]

\* get_llm and the set-up of the loop
LlmStart(Retries) ==
  /\ entry = "llm"
  /\ pc = "llm_start"
  /\ \E m \in Retries, d \in BOOLEAN :
       IF ~env.api_key
       THEN /\ llm' = [NoLlm EXCEPT !.max_retries = m, !.debug = d, !.status = "raised",
                                    !.raised = [attempts |-> 0, last |-> "GOOGLE_API_KEY_GEMINI"]]
            /\ pc' = "done"
            /\ outcome' = "error"
       ELSE /\ llm' = [NoLlm EXCEPT !.max_retries = m, !.debug = d, !.attempt = 1]
            /\ pc' = "invoke"
            /\ UNCHANGED outcome
  /\ UNCHANGED <<reqVars, fileVars, followups, events, res, dep_meta, npm_cache, now, first,
                 tmpVars, valVars, calls>>

\* one iteration of the loop: structured_callable.invoke(prompt)
Invoke(InvokeOutcomes) ==
  /\ entry = "llm"
  /\ pc = "invoke"
  /\ \E out \in InvokeOutcomes :
       /\ llm' = IF out.raised THEN AttemptFailed(llm, out) ELSE AttemptReturned(llm, out)
       /\ pc' = IF llm'.status = "running" THEN "invoke" ELSE "done"
       /\ outcome' = IF llm'.status = "returned" THEN "response"
                     ELSE IF llm'.status = "raised" THEN "error" ELSE outcome
  /\ UNCHANGED <<reqVars, fileVars, followups, events, res, dep_meta, npm_cache, now, first,
                 tmpVars, valVars, calls>>

MaxRetries == 3    \* the largest max_retries a caller passes

InvokeOutcomesAll ==
  {InvokeRaised("timeout"), InvokeRaised("parse error"),
   InvokeReturned(TRUE, None), InvokeReturned(TRUE, Absent), InvokeReturned(FALSE, "{warnings}")}

InitLlm ==
  \E key \in BOOLEAN :
    Boot("llm", "llm_start", DefaultOpts, [DefaultEnv EXCEPT !.api_key = key], NoBase, <<>>,
         NoCache, 0)

NextLlm == LlmStart(0..MaxRetries) \/ Invoke(InvokeOutcomesAll)

SpecLlm == InitLlm /\ [][NextLlm]_vars

(***************************************************************************)
(* The questions endpoint (api/generate.py, generate_questions): one call  *)
(* of the gate per round; between two rounds the client adds the questions *)
(* it was asked to options.previous_questions.                             *)
(***************************************************************************)
MaxRounds == 2     \* rounds of questions of one client

\* POST /generate/questions
Questions(GateOutputs) ==
  /\ entry = "questions"
  /\ pc = "questions"
  /\ \E raw \in GateOutputs :
       /\ followups' = generate_followup_questions(raw, opts)
       /\ calls' = Bump("gate")
       /\ pc' = "asked"
       /\ outcome' = "response"
  /\ UNCHANGED <<reqVars, fileVars, events, depVars, tmpVars, valVars>>

\* the client asks again, the questions of the last round now in its history
AskAgain ==
  /\ entry = "questions"
  /\ pc = "asked"
  /\ calls.gate < MaxRounds
  /\ opts' = [opts EXCEPT !.previous_questions = @ \cup {followups[i].question : i \in 1..Len(followups)}]
  /\ followups' = <<>>
  /\ pc' = "questions"
  /\ outcome' = "running"
  /\ UNCHANGED <<entry, env, base_files, fileVars, events, depVars, tmpVars, valVars, calls>>

QuestionTexts ==
  {<<"Q">>, <<"q">>, <<" ", "Q", " ">>, <<"Q", " ", "r">>, <<"q", " ", " ", "R">>, <<"R">>}

GateOutputsAll ==
  {GateFailed} \cup
  {GateReturned(items) :
     items \in SeqsUpTo({StrItem(q) : q \in QuestionTexts} \cup {DictItem(<<"r">>, 90)}, MaxFiles)}

Histories == {{}, {<<"Q">>}, {<<"q", " ", "r">>}, {<<" ", "q">>, <<"R">>}}

InitGate ==
  \E h \in Histories, m \in {1, 5} :
    Boot("questions", "questions",
         [DefaultOpts EXCEPT !.request_questions = TRUE, !.previous_questions = h,
                             !.max_questions = m],
         DefaultEnv, NoBase, <<>>, NoCache, 0)

NextGate == Questions(GateOutputsAll) \/ AskAgain

SpecGate == InitGate /\ [][NextGate]_vars

(***************************************************************************)
(* The resolver on its own: resolve_and_pin_files called on a manifest.    *)
(***************************************************************************)
React == <<"react">>
LeftPad == <<"lp">>
Scoped == <<"@", "s/p">>
Versioned == <<"lp", "@", "1">>

Candidate(n, v) == [name |-> n, version |-> v]

\* has_version: the document has a "version" key (whose value may be null)
Document(latest, version, versions) ==
  [latest |-> latest, version |-> version, versions |-> versions, has_version |-> version # None]

Status200(data, cands) == [kind |-> "200", data |-> data, candidates |-> cands]

Status404(cands) == [kind |-> "404", candidates |-> cands]

\* every outcome of a registry request: the candidates are what _search_registry
\* returns (an empty list on any failure of the search)
RegOutcomesAll ==
  { Status200(Document("2.0.0", None, {}), <<>>),
    Status200(Document(None, None, {"1.0.0", "2.0.0"}), <<>>),
    Status200(Document(None, None, {}), <<>>),
    Status200(Document(None, None, {}), <<Candidate(LeftPad, "1.0.0")>>),
    Status404(<<Candidate(LeftPad, "1.0.0")>>),
    Status404(<<>>),
    [kind |-> "other"],
    [kind |-> "exc"] }

Lock(deps, packages) == [kind |-> "lock", lock |-> [dependencies |-> deps, packages |-> packages]]

NpmOutcomesAll ==
  { [kind |-> "write_error"], [kind |-> "timeout"], [kind |-> "failed"],
    Lock(Put(EmptyDict, React, "1.0.0"), <<>>),
    Lock(EmptyDict, <<<<LeftPad, "2.0.0">>, <<React, "1.0.0">>>>),
    Lock(Put(EmptyDict, LeftPad, None), <<>>) }

ResolverNames == {React, LeftPad, Versioned}

MaxDeps == 2       \* entries of a manifest's dependencies section

DepLists ==
  {d \in SeqsUpTo(ResolverNames \X {"", "^1"}, MaxDeps) :
      \A i, j \in 1..Len(d) : i # j => d[i][1] # d[j][1]}

StartTime == 3

ResolverCaches ==
  { NoCache,
    [present |-> TRUE, mtime |-> 2, data |-> Put(EmptyDict, React, [ver |-> "1.0.0", ts |-> 2])],
    [present |-> TRUE, mtime |-> 2, data |-> Put(EmptyDict, React, [ver |-> "1.0.0", ts |-> 0])],
    [present |-> TRUE, mtime |-> 0, data |-> Put(EmptyDict, React, [ver |-> "1.0.0", ts |-> 0])] }

\* the curated table of the deployment: empty, or with a version for react
CuratedTables == {EmptyDict, Put(EmptyDict, React, "18.2.0")}

InitResolver ==
  \E d \in DepLists, npm \in BOOLEAN, cache \in ResolverCaches, curated \in CuratedTables :
    Boot("resolve", "pin", DefaultOpts, [DefaultEnv EXCEPT !.npm = npm, !.curated = curated], NoBase,
         <<File(Manifest, Json(d))>>, cache, StartTime)

NextResolver ==
  \/ PinStart
  \/ NpmRun(NpmOutcomesAll)
  \/ RegistryLookup(RegOutcomesAll)
  \/ RegistryFinish

SpecResolver == InitResolver /\ [][NextResolver]_vars

(***************************************************************************)
(* The resolver called twice by one server process for the same manifest,  *)
(* the second call at most NPM_CACHE_TTL after the first.                  *)
(***************************************************************************)
\* resolve_and_pin_files is entered again: nothing but the cache file and the
\* clock is carried from one call to the next
ResolveAgain ==
  /\ entry = "resolve"
  /\ pc = "done"
  /\ ~first.ran
  /\ dep_meta.ran
  /\ first' = [ran |-> TRUE, pinned |-> dep_meta.pinned, time |-> now, calls |-> calls]
  /\ \E dt \in 0..NPM_CACHE_TTL : now' = now + dt
  /\ files' = <<File(Manifest, Json(res.deps))>>
  /\ res' = NoRes
  /\ dep_meta' = NoMeta
  /\ pc' = "pin"
  /\ outcome' = "running"
  /\ UNCHANGED <<reqVars, base_files_map, parsed_files, generated_files, followups, events,
                 npm_cache, llm, tmpVars, valVars, calls>>

InitTwice ==
  \E d \in DepLists, npm \in BOOLEAN, cache \in ResolverCaches :
    /\ Len(d) = 1
    /\ Boot("resolve", "pin", DefaultOpts, [DefaultEnv EXCEPT !.npm = npm], NoBase,
            <<File(Manifest, Json(d))>>, cache, StartTime)

NextTwice == NextResolver \/ ResolveAgain

SpecTwice == InitTwice /\ [][NextTwice]_vars

\* C4: when resolve_and_pin has returned, its "resolved" list holds exactly one
\* entry for each requested dependency name, each with a source and a confidence
\* field, and none for any other name.
C4_Coverage ==
  (entry = "resolve" /\ pc = "done" /\ dep_meta.ran) =>
    /\ \A n \in Range(ODKeys(res.deps)) :
         Cardinality({i \in 1..Len(dep_meta.resolved) : dep_meta.resolved[i].name = n}) = 1
    /\ \A i \in 1..Len(dep_meta.resolved) :
         /\ dep_meta.resolved[i].name \in Range(ODKeys(res.deps))
         /\ {"source", "confidence"} \subseteq DOMAIN dep_meta.resolved[i]


(***************************************************************************)
(* The requests and the environments of the pipeline specification.        *)
(***************************************************************************)
PathA == <<"a">>
PathDotA == <<".", "/", "a">>
PathRoot == <<"/">>
PathTrailingBs == <<"package.json", "\\">>

ContentX == Text(<<"x">>)
ContentY == Text(<<"y", "y", "y">>)

GenFileSet ==
  { File(PathA, ContentX), File(PathDotA, ContentY), File(<<>>, ContentX),
    File(PathRoot, ContentX), File(PathTrailingBs, ContentX),
    File(Manifest, Json(<< <<React, "^1">> >>)) }

GenOutputsMain == {GenFailed} \cup {GenReturned(fs) : fs \in SeqsUpTo(GenFileSet, MaxFiles)}

RepairFileSet == {File(PathA, ContentX), File(PathRoot, ContentY), File(Manifest, Json(<<>>))}

RepairOutputsMain ==
  {RepairFailed} \cup
  {RepairReturned(fs, io) : fs \in SeqsUpTo(RepairFileSet, MaxRepairFiles), io \in BOOLEAN}

ValOutcomesAll == {"write_error", "pass", "fail"}

QuestionQ == <<"Q">>

GateOutputsMain ==
  {GateFailed, GateReturned(<<>>), GateReturned(<<StrItem(QuestionQ)>>),
   GateReturned(<<DictItem(QuestionQ, 10)>>)}

RegOutcomesMain == {Status200(Document("2.0.0", None, {}), <<>>), Status404(<<>>), [kind |-> "other"]}

NpmOutcomesMain == {[kind |-> "timeout"], [kind |-> "write_error"], Lock(Put(EmptyDict, React, "1.0.0"), <<>>)}

BasesMain ==
  {NoBase, Base(<<>>, <<>>), Base(<<File(PathA, ContentX)>>, <<>>),
   Base(<<File(PathA, ContentX)>>, <<PathA>>)}

\* answers are read by the gate only: they vary with request_questions set
OptsMain ==
  {[DefaultOpts EXCEPT !.request_questions = rq, !.validate = v, !.answers = a] :
     rq \in BOOLEAN, v \in BOOLEAN, a \in {{}, {QuestionQ}}}
  \ {[DefaultOpts EXCEPT !.validate = v, !.answers = {QuestionQ}] : v \in BOOLEAN}

EnvsMain == {[DefaultEnv EXCEPT !.npm = n, !.tsc = t] : n \in BOOLEAN, t \in BOOLEAN}

GenOutputsChain ==
  {GenFailed, GenReturned(<<>>), GenReturned(<<File(PathA, ContentX)>>),
   GenReturned(<<File(PathDotA, ContentY)>>), GenReturned(<<File(Manifest, Json(<< <<React, "^1">> >>))>>)}

RepairOutputsChain ==
  {RepairFailed, RepairReturned(<<File(PathA, ContentX)>>, TRUE),
   RepairReturned(<<File(PathRoot, ContentY)>>, TRUE)}

MaxComponents == 2     \* components of the schema of a request

OptsChain ==
  {[o EXCEPT !.components = n] : o \in OptsMain, n \in {0, MaxComponents}}

EnvsChain ==
  {[DefaultEnv EXCEPT !.tsc = t, !.retries = r, !.chunk_size = c] :
     t \in BOOLEAN, r \in 0..MaxBudget, c \in 1..2}

OverlayBases ==
  BasesMain \cup {Base(<<File(PathA, ContentX), File(PathRoot, ContentX)>>, <<>>),
                  Base(<<File(PathA, ContentX)>>, <<PathDotA>>)}

\* the environment varies in what the request reads: the compiler and the repair
\* budget with validate set, the chunk size with components in the schema
Reads(o, v) ==
  /\ o.validate \/ (v.tsc = DefaultEnv.tsc /\ v.retries = DefaultEnv.retries)
  /\ o.components > 0 \/ v.chunk_size = DefaultEnv.chunk_size

Init ==
  \/ \E e \in {"generate", "stream"}, o \in OptsMain, v \in EnvsMain, b \in BasesMain :
       Reads(o, v) /\ Boot(e, "gate", o, v, b, <<>>, NoCache, StartTime)
  \/ \E b \in OverlayBases :
       Boot("overlay", "overlay", DefaultOpts, DefaultEnv, b, <<>>, NoCache, StartTime)
  \/ \E n \in 0..MaxBudget, fs \in SeqsUpTo(RepairFileSet, 1) :
       Boot("repair", "repair", DefaultOpts, [DefaultEnv EXCEPT !.budget = n], NoBase, fs,
            NoCache, StartTime)
  \/ \E o \in OptsChain, v \in EnvsChain :
       Reads(o, v) /\ Boot("chain_generate", "gate", o, v, NoBase, <<>>, NoCache, StartTime)
  \/ \E o \in OptsChain :
       Boot("chain_stream", "gate", o, DefaultEnv, NoBase, <<>>, NoCache, StartTime)

Next ==
  \/ Gate(GateOutputsMain)
  \/ GenerateCall(GenOutputsMain)
  \/ PinStart
  \/ NpmRun(NpmOutcomesMain)
  \/ RegistryLookup(RegOutcomesMain)
  \/ RegistryFinish
  \/ MkTmp
  \/ Validate(ValOutcomesAll)
  \/ Repair(RepairOutputsMain)
  \/ Revalidate(ValOutcomesAll)
  \/ OverlayStart
  \/ OverlayCall(GenOutputsMain)
  \/ ChainGate(GateOutputsMain)
  \/ ChainGenCall(GenOutputsChain)
  \/ ChainPinStart
  \/ ChainLookup(RegOutcomesMain)
  \/ ChainPinFinish
  \/ ChainValidate(ValOutcomesAll)
  \/ ChainRepair(RepairOutputsChain, ValOutcomesAll)
  \/ ChainRepairEnd

Spec == Init /\ [][Next]_vars

(***************************************************************************)
(* The requests that validate their files, on their own: the validate /    *)
(* repair loops of generate_project, stream_generate_project and           *)
(* generate_project_files, and attempt_repair called with each budget.     *)
(* A handler that can take its next step takes it (an awaited call         *)
(* returns or raises after its timeout), hence the weak fairness.          *)
(***************************************************************************)
GenOutputsLoop ==
  {GenFailed, GenReturned(<<File(PathA, ContentX)>>),
   GenReturned(<<File(PathA, ContentX), File(PathDotA, ContentY)>>)}

OptsLoop == [DefaultOpts EXCEPT !.validate = TRUE]

InitLoop ==
  \/ \E e \in {"generate", "stream"}, t \in BOOLEAN :
       Boot(e, "gate", OptsLoop, [DefaultEnv EXCEPT !.tsc = t], NoBase, <<>>, NoCache, StartTime)
  \/ \E n \in 0..MaxBudget, fs \in SeqsUpTo(RepairFileSet, 1) :
       Boot("repair", "repair", DefaultOpts, [DefaultEnv EXCEPT !.budget = n], NoBase, fs,
            NoCache, StartTime)
  \/ \E r \in 0..MaxBudget, t \in BOOLEAN :
       Boot("chain_generate", "gate", OptsLoop, [DefaultEnv EXCEPT !.retries = r, !.tsc = t], NoBase,
            <<>>, NoCache, StartTime)

NextLoop ==
  \/ Gate(GateOutputsMain)
  \/ GenerateCall(GenOutputsLoop)
  \/ PinStart
  \/ MkTmp
  \/ Validate(ValOutcomesAll)
  \/ Repair(RepairOutputsMain)
  \/ Revalidate(ValOutcomesAll)
  \/ ChainGate(GateOutputsMain)
  \/ ChainGenCall(GenOutputsLoop)
  \/ ChainPinStart
  \/ ChainValidate(ValOutcomesAll)
  \/ ChainRepair(RepairOutputsChain, ValOutcomesAll)
  \/ ChainRepairEnd

SpecLoop == InitLoop /\ [][NextLoop]_vars /\ WF_vars(NextLoop)

(***************************************************************************)
(* Streaming of files of every length up to MaxContent: a stream request   *)
(* without base files and without validation.                              *)
(***************************************************************************)
MaxContent == 5    \* characters of a generated file

PathB == <<"b">>

PathAbs == <<"/", "a">>

PathUp == <<".", ".", "/", "a">>

Contents == {Text(t) : t \in SeqsUpTo({"x", "y"}, MaxContent)}

GenOutputsChunks ==
  {GenFailed}
  \cup {GenReturned(<<File(PathA, c)>>) : c \in Contents}
  \cup {GenReturned(<<File(p, ContentX), File(PathB, ContentY)>>) : p \in {PathAbs, PathUp}}
  \cup {GenReturned(<<File(PathA, c), File(PathB, d)>>) :
          c \in {Text(<<>>), ContentY}, d \in {Text(<<>>), ContentX, ContentY}}

InitChunks == Boot("stream", "gen", DefaultOpts, DefaultEnv, NoBase, <<>>, NoCache, 0)

NextChunks == GenerateCall(GenOutputsChunks) \/ PinStart

SpecChunks == InitChunks /\ [][NextChunks]_vars

(***************************************************************************)
(* generate_project and stream_generate_project from the generation call   *)
(* on, for a project with one source file and a manifest: every kind of    *)
(* manifest and every answer of npm and of the registry.                   *)
(***************************************************************************)
PinDepLists ==
  {<<>>, <<<<React, "^1">>>>, <<<<React, "">>>>, <<<<LeftPad, "^1">>>>,
   <<<<React, "^1">>, <<LeftPad, "">>>>}

PinManifests ==
  {Json(d) : d \in PinDepLists}
  \cup {Text(<<"x">>), JsonArray,
        Pkg(<<>>, <<<<React, "">>>>, <<<<LeftPad, "^1">>>>),
        Pkg(<<<<Versioned, "">>>>, <<<<LeftPad, "^1">>>>, <<>>)}

GenOutputsPin == {GenReturned(<<File(PathA, ContentX), File(Manifest, m)>>) : m \in PinManifests}

InitPin ==
  \E e \in {"generate", "stream"}, v \in BOOLEAN, npm \in BOOLEAN :
    Boot(e, "gen", [DefaultOpts EXCEPT !.validate = v], [DefaultEnv EXCEPT !.npm = npm], NoBase,
         <<>>, NoCache, StartTime)

NextPin ==
  \/ GenerateCall(GenOutputsPin)
  \/ PinStart
  \/ NpmRun(NpmOutcomesAll)
  \/ RegistryLookup(RegOutcomesAll)
  \/ RegistryFinish
  \/ MkTmp
  \/ Validate(ValOutcomesAll)
  \/ Repair(RepairOutputsMain)
  \/ Revalidate(ValOutcomesAll)

SpecPin == InitPin /\ [][NextPin]_vars

(***************************************************************************)
(* The generation phase of generate_project, stream_generate_project and   *)
(* chain.py generate_project_files for schemas of 0..MaxComponents + 1     *)
(* components and chunk sizes of 1..MaxComponents.                         *)
(***************************************************************************)
GenOutputsBatches == {GenFailed, GenReturned(<<>>), GenReturned(<<File(PathA, ContentX)>>)}

InitBatches ==
  \E e \in {"generate", "stream", "chain_generate"}, n \in 0..(MaxComponents + 1),
     c \in 1..MaxComponents, b \in {NoBase, Base(<<>>, <<>>)} :
    /\ n > 0 \/ c = DefaultEnv.chunk_size
    /\ e \in {"generate", "stream"} \/ b = NoBase
    /\ Boot(e, "gen", [DefaultOpts EXCEPT !.components = n], [DefaultEnv EXCEPT !.chunk_size = c],
            b, <<>>, NoCache, StartTime)

NextBatches ==
  \/ GenerateCall(GenOutputsBatches)
  \/ PinStart
  \/ ChainGenCall(GenOutputsBatches)
  \/ ChainPinStart

SpecBatches == InitBatches /\ [][NextBatches]_vars

(***************************************************************************)
(* Two resolver runs that share the cache file.  The file system is a      *)
(* table of names (the cache file, and the ".tmp" file of _save_cache)     *)
(* over inodes; the pickle of a cache is a list of cells, a key, a version *)
(* and a timestamp per entry and a closing STOP, and a write call stores   *)
(* one cell at the offset of its descriptor.  entry is "race_resolver" for *)
(* dep_resolver._resolve_with_registry and "race_chain" for                *)
(* chain.get_latest_npm_version, each run looking up one name.             *)
(***************************************************************************)
Procs == {1, 2}

KeyCell(n) == [kind |-> "key", name |-> n, ver |-> "", ts |-> 0]

VerCell(v) == [kind |-> "ver", name |-> <<>>, ver |-> v, ts |-> 0]

TsCell(t) == [kind |-> "ts", name |-> <<>>, ver |-> "", ts |-> t]

StopCell == [kind |-> "stop", name |-> <<>>, ver |-> "", ts |-> 0]

\* the zero bytes between the end of a truncated file and a later write
HoleCell == [kind |-> "hole", name |-> <<>>, ver |-> "", ts |-> 0]

RECURSIVE PickleDump(_)
\* pickle.dump(cache, fh): the entries in the order of the dict
PickleDump(cache) ==
  IF cache = <<>> THEN <<StopCell>>
  ELSE <<KeyCell(cache[1][1]), VerCell(cache[1][2].ver), TsCell(cache[1][2].ts)>>
       \o PickleDump(Tail(cache))

RECURSIVE PickleLoadFrom(_, _, _)
\* pickle.load(fh): reads up to STOP and ignores what follows; raises on a file
\* that ends early or whose cells are not those of a dict of entries
PickleLoadFrom(cells, i, acc) ==
  IF i > Len(cells) THEN [ok |-> FALSE, cache |-> <<>>]
  ELSE IF cells[i].kind = "stop" THEN [ok |-> TRUE, cache |-> acc]
  ELSE IF /\ i + 2 <= Len(cells)
          /\ cells[i].kind = "key" /\ cells[i + 1].kind = "ver" /\ cells[i + 2].kind = "ts"
  THEN PickleLoadFrom(cells, i + 3,
                      ODPut(acc, cells[i].name, [ver |-> cells[i + 1].ver, ts |-> cells[i + 2].ts]))
  ELSE [ok |-> FALSE, cache |-> <<>>]

\* _load_cache / _load_npm_cache on a file younger than the TTL: {} when the
\* file does not exist or pickle.load raises
LoadCacheFile(fs) ==
  IF fs.file = 0 THEN <<>>
  ELSE LET r == PickleLoadFrom(fs.inodes[fs.file], 1, <<>>) IN
       IF r.ok THEN r.cache ELSE <<>>

\* open(path, "wb"): the inode of an existing name is truncated, a missing name
\* gets a new inode
OpenTruncate(fs, path) ==
  IF fs[path] = 0
  THEN [fs EXCEPT ![path] = Len(fs.inodes) + 1, !.inodes = Append(@, <<>>)]
  ELSE [fs EXCEPT !.inodes[fs[path]] = <<>>]

\* a write call of one cell at offset off of an inode
WriteAt(content, off, cell) ==
  IF off < Len(content) THEN [content EXCEPT ![off + 1] = cell]
  ELSE content \o [i \in 1..(off - Len(content)) |-> HoleCell] \o <<cell>>

NoEntry == [ver |-> "", ts |-> 0]

NoProc == [pc |-> "load", name |-> <<>>, cache |-> <<>>, looked |-> FALSE, wrote |-> NoEntry,
           fd |-> 0, off |-> 0, buf |-> <<>>]

IsRace == entry \in {"race_resolver", "race_chain"}

RaceRest == <<reqVars, fileVars, followups, events, dep_meta, first, llm, tmpVars, valVars, calls,
              outcome>>

\* the two runs begin, each with the name it looks up
RaceStart ==
  /\ IsRace
  /\ pc = "race_start"
  /\ \E names \in [Procs -> {React, LeftPad}] :
       res' = [q \in Procs |-> [NoProc EXCEPT !.name = names[q]]]
  /\ pc' = "race"
  /\ UNCHANGED <<npm_cache, now, RaceRest>>

\* cache = _load_cache()
RaceLoad ==
  /\ IsRace
  /\ pc = "race"
  /\ \E q \in Procs :
       /\ res[q].pc = "load"
       /\ res' = [res EXCEPT ![q].cache = LoadCacheFile(npm_cache), ![q].pc = "lookup"]
  /\ UNCHANGED <<pc, npm_cache, now, RaceRest>>

\* the cache check and the registry request, which answers 200 with a version;
\* get_latest_npm_version returns a cached version without saving
RaceLookup(Versions) ==
  /\ IsRace
  /\ pc = "race"
  /\ \E q \in Procs :
       LET c == res[q].cache
           name == res[q].name IN
       /\ res[q].pc = "lookup"
       /\ IF ODHas(c, name) /\ now - ODGet(c, name).ts < NPM_CACHE_TTL
          THEN /\ res' = [res EXCEPT ![q].pc = IF entry = "race_chain" THEN "done" ELSE "open"]
               /\ UNCHANGED now
          ELSE \E ver \in Versions :
               LET e == [ver |-> ver, ts |-> now] IN
               /\ res' = [res EXCEPT ![q].cache = ODPut(c, name, e), ![q].wrote = e,
                                      ![q].looked = TRUE, ![q].pc = "open"]
               /\ now' = now + 1
  /\ UNCHANGED <<pc, npm_cache, RaceRest>>

\* where a run writes the cache: _save_cache opens NPM_CACHE_FILE + ".tmp",
\* _save_npm_cache the cache file itself
SavePath == IF entry = "race_resolver" THEN "tmp" ELSE "file"

\* open(..., "wb") and pickle.dump into the buffer of the file object
RaceOpen ==
  /\ IsRace
  /\ pc = "race"
  /\ \E q \in Procs :
       LET fs == OpenTruncate(npm_cache, SavePath) IN
       /\ res[q].pc = "open"
       /\ npm_cache' = fs
       /\ res' = [res EXCEPT ![q].fd = fs[SavePath], ![q].off = 0,
                              ![q].buf = PickleDump(res[q].cache), ![q].pc = "write"]
  /\ UNCHANGED <<pc, now, RaceRest>>

\* one write call of the file object
RaceWrite ==
  /\ IsRace
  /\ pc = "race"
  /\ \E q \in Procs :
       /\ res[q].pc = "write"
       /\ res[q].buf # <<>>
       /\ npm_cache' = [npm_cache EXCEPT
                          !.inodes[res[q].fd] = WriteAt(@, res[q].off, Head(res[q].buf))]
       /\ res' = [res EXCEPT ![q].buf = Tail(@), ![q].off = @ + 1]
  /\ UNCHANGED <<pc, now, RaceRest>>

\* the file object is closed; _save_cache then calls os.replace(tmp, NPM_CACHE_FILE),
\* whose FileNotFoundError is swallowed when the other run has moved the file
RaceClose ==
  /\ IsRace
  /\ pc = "race"
  /\ \E q \in Procs :
       /\ res[q].pc = "write"
       /\ res[q].buf = <<>>
       /\ res' = [res EXCEPT ![q].pc = "done"]
       /\ npm_cache' = IF entry = "race_resolver" /\ npm_cache.tmp # 0
                        THEN [npm_cache EXCEPT !.file = npm_cache.tmp, !.tmp = 0]
                        ELSE npm_cache
  /\ UNCHANGED <<pc, now, RaceRest>>

NoCacheFile == [file |-> 0, tmp |-> 0, inodes |-> <<>>]

\* a cache file written by an earlier run
OldEntry == [ver |-> "1.0.0", ts |-> StartTime - 1]

OldCacheFile == [file |-> 1, tmp |-> 0, inodes |-> <<PickleDump(<<<<LeftPad, OldEntry>>>>)>>]

InitRace ==
  \E e \in {"race_resolver", "race_chain"}, fs \in {NoCacheFile, OldCacheFile} :
    Boot(e, "race_start", DefaultOpts, DefaultEnv, NoBase, <<>>, fs, StartTime)

NextRace ==
  \/ RaceStart
  \/ RaceLoad
  \/ RaceLookup({"1.0.0", "2.0.0"})
  \/ RaceOpen
  \/ RaceWrite
  \/ RaceClose

SpecRace == InitRace /\ [][NextRace]_vars

(***************************************************************************)
(* The overlay endpoint, generate_project and stream_generate_project for  *)
(* model outputs that hold an image file.                                  *)
(***************************************************************************)
PathLogo == <<"logo.png">>

GenOutputsBinary ==
  {GenFailed, GenReturned(<<>>), GenReturned(<<File(PathA, ContentX)>>),
   GenReturned(<<File(PathLogo, ContentX)>>),
   GenReturned(<<File(PathA, ContentX), File(PathLogo, ContentY)>>),
   GenReturned(<<File(PathLogo, ContentX), File(PathB, ContentY)>>)}

InitBinary ==
  \/ \E b \in OverlayBases :
       Boot("overlay", "overlay", DefaultOpts, DefaultEnv, b, <<>>, NoCache, StartTime)
  \/ \E e \in {"generate", "stream"}, b \in BasesMain :
       Boot(e, "gen", DefaultOpts, DefaultEnv, b, <<>>, NoCache, StartTime)

NextBinary ==
  \/ OverlayStart
  \/ OverlayCall(GenOutputsBinary)
  \/ GenerateCall(GenOutputsBinary)
  \/ PinStart

SpecBinary == InitBinary /\ [][NextBinary]_vars

(***************************************************************************)
(* run_validations for every choice of option flags, of installed tools    *)
(* and of answers of the tools.                                            *)
(***************************************************************************)
InitValidations ==
  \E requested \in [Checks -> BOOLEAN], installed \in [Checks -> BOOLEAN],
     answers \in [Checks -> {"pass", "fail"}] :
    Boot("validations", "validate", requested, [installed |-> installed, answers |-> answers],
         NoBase, <<>>, NoCache, StartTime)

NextValidations == Validations

SpecValidations == InitValidations /\ [][NextValidations]_vars

(***************************************************************************)
(* generate_project and stream_generate_project without validation, for    *)
(* every shape of the object the generation call returns.                  *)
(***************************************************************************)
ShapeFileLists ==
  {<<>>, <<File(PathA, ContentX)>>, <<File(PathB, ContentY)>>,
   <<File(PathA, ContentX), File(PathB, ContentY)>>,
   <<File(PathDotA, ContentX), File(PathA, ContentY)>>}

GenOutputsShape ==
  {GenFailed, GenShaped("no_files", <<>>)}
  \cup {GenShaped(sh, fs) : sh \in {"full", "no_metadata"}, fs \in ShapeFileLists}

InitShape ==
  \E e \in {"generate", "stream"}, b \in BasesMain :
    Boot(e, "gen", DefaultOpts, DefaultEnv, b, <<>>, NoCache, StartTime)

NextShape == GenerateCall(GenOutputsShape) \/ PinStart

SpecShape == InitShape /\ [][NextShape]_vars


(***************************************************************************)
(* One request served twice, by generate_project and then by               *)
(* stream_generate_project, the model, the registry and the compiler       *)
(* giving the second run the answers they gave the first: env holds the    *)
(* answers (gen, reg, val, repair), and the cache file of the first run is *)
(* put back before the second.                                             *)
(***************************************************************************)
ParityManifest == File(Manifest, Json(<< <<React, "^1">> >>))

ParityFileLists ==
  {<<>>, <<File(PathA, ContentX)>>, <<ParityManifest>>, <<File(PathA, ContentX), ParityManifest>>,
   <<File(PathA, ContentX), File(PathB, ContentY)>>}

ParityEnvs ==
  {[gen |-> GenReturned(fs), reg |-> r, val |-> v, repair |-> rp] @@ DefaultEnv :
     fs \in ParityFileLists,
     r \in {Status200(Document("2.0.0", None, {}), <<>>), Status404(<<>>)},
     v \in {"pass", "fail"},
     rp \in {RepairFailed, RepairReturned(<<File(PathA, ContentY)>>, TRUE)}}

\* the second run: nothing of the first is carried over but its result, kept in first
StreamAgain ==
  /\ entry = "generate"
  /\ pc = "done"
  /\ ~first.ran
  /\ first' = [ran |-> TRUE, pinned |-> dep_meta.pinned, time |-> now, calls |-> calls,
               files |-> files, outcome |-> outcome]
  /\ entry' = "stream"
  /\ pc' = "gen"
  /\ outcome' = "running"
  /\ base_files_map' = EmptyDict
  /\ parsed_files' = <<>>
  /\ generated_files' = <<>>
  /\ files' = <<>>
  /\ events' = <<>>
  /\ res' = NoRes
  /\ dep_meta' = NoMeta
  /\ npm_cache' = NoCache
  /\ tmp_live' = {}
  /\ tmp_made' = {}
  /\ report' = NoReport
  /\ rep' = NoRep
  /\ disk' = {}
  /\ calls' = NoCalls
  /\ UNCHANGED <<opts, env, base_files, followups, now, llm>>

InitParity ==
  \E v \in ParityEnvs, validate \in BOOLEAN, b \in {NoBase, Base(<<>>, <<>>)} :
    Boot("generate", "gen", [DefaultOpts EXCEPT !.validate = validate], v, b, <<>>, NoCache, StartTime)

NextParity ==
  \/ GenerateCall({env.gen})
  \/ PinStart
  \/ RegistryLookup({env.reg})
  \/ RegistryFinish
  \/ MkTmp
  \/ Validate({env.val})
  \/ Repair({env.repair})
  \/ Revalidate({env.val})
  \/ StreamAgain

SpecParity == InitParity /\ [][NextParity]_vars

(***************************************************************************)
(* The generation calls of chain.py generate_project_files for a schema    *)
(* with components: the chunk calls and the scaffolding call, each awaited *)
(* before the next is issued, answering with files of the same paths.      *)
(***************************************************************************)
GenOutputsOrder ==
  {GenFailed, GenReturned(<<>>)}
  \cup {GenReturned(<<File(p, c)>>) : p \in {PathA, PathDotA, PathB, PathRoot}, c \in {ContentX, ContentY}}

InitOrder ==
  \E n \in 1..MaxComponents, c \in 1..MaxComponents :
    Boot("chain_generate", "gen", [DefaultOpts EXCEPT !.components = n],
         [DefaultEnv EXCEPT !.chunk_size = c], NoBase, <<>>, NoCache, StartTime)

NextOrder == ChainGenCall(GenOutputsOrder) \/ ChainPinStart

SpecOrder == InitOrder /\ [][NextOrder]_vars

(***************************************************************************)
(* Validation and repair of files whose paths the model chose: a relative  *)
(* path, an absolute one and one that climbs out of its directory, in the  *)
(* generation result and in the repair result.                             *)
(***************************************************************************)
ScratchPaths == {PathA, PathAbs, PathUp}

GenOutputsScratch == {GenFailed} \cup {GenReturned(<<File(p, ContentX)>>) : p \in ScratchPaths}

RepairOutputsScratch ==
  {RepairFailed} \cup {RepairReturned(<<File(p, ContentY)>>, TRUE) : p \in ScratchPaths}

InitScratch ==
  \/ \E e \in {"generate", "stream"}, t \in BOOLEAN :
       Boot(e, "gen", OptsLoop, [DefaultEnv EXCEPT !.tsc = t], NoBase, <<>>, NoCache, StartTime)
  \/ \E n \in 0..MaxBudget :
       Boot("repair", "repair", DefaultOpts, [DefaultEnv EXCEPT !.budget = n], NoBase,
            <<File(PathA, ContentX)>>, NoCache, StartTime)

NextScratch ==
  \/ GenerateCall(GenOutputsScratch)
  \/ PinStart
  \/ MkTmp
  \/ Validate(ValOutcomesAll)
  \/ Repair(RepairOutputsScratch)
  \/ Revalidate(ValOutcomesAll)

SpecScratch == InitScratch /\ [][NextScratch]_vars

(***************************************************************************)
(* The questions endpoint for model outputs whose candidates differ in     *)
(* urgency: env.gate is the answer of the model, the same in every round.  *)
(***************************************************************************)
UrgencyItems ==
  {DictItem(q, u) : q \in {<<"Q">>, <<" ", "q">>, <<"R">>}, u \in {10, 90}} \cup {StrItem(<<"Q", " ", "r">>)}

GateOutputsUrgency == {GateFailed} \cup {GateReturned(items) : items \in SeqsUpTo(UrgencyItems, MaxFiles)}

InitUrgency ==
  \E raw \in GateOutputsUrgency, h \in {{}, {<<"R">>}}, a \in {{}, {<<"r">>}}, m \in {1, 5} :
    Boot("questions", "questions",
         [DefaultOpts EXCEPT !.request_questions = TRUE, !.previous_questions = h, !.answers = a,
                             !.max_questions = m],
         [gate |-> raw] @@ DefaultEnv, NoBase, <<>>, NoCache, 0)

NextUrgency == Questions({env.gate}) \/ AskAgain

SpecUrgency == InitUrgency /\ [][NextUrgency]_vars

(***************************************************************************)
(* Properties of the merge / dedupe step and of the overlay delta.         *)
(***************************************************************************)
\* the records of the merge input that carry a path
WithPath(gen) == {i \in 1..Len(gen) : gen[i].path # <<>>}

\* the content of the last record of gen whose normalized path is k
LastContent(gen, k) ==
  LET hits == {i \in WithPath(gen) : CleanPath(gen[i].path) = k}
  IN  gen[CHOOSE i \in hits : \A j \in hits : j <= i].content

AfterDedupe == (entry = "generate" /\ pc = "pin") \/ (entry = "chain_generate" /\ pc = "chain_pin")

\* C1: after the merge / dedupe step of the single-shot generate operation, every
\* normalized path of the input records appears exactly once in the files, with the
\* content of the last input record of that normalized path, and no file has an
\* empty path.
C1_LastWriterWins ==
  AfterDedupe =>
    LET keys == {CleanPath(generated_files[i].path) : i \in WithPath(generated_files)} IN
    /\ \A k \in keys :
         /\ Cardinality({i \in 1..Len(files) : files[i].path = k}) = 1
         /\ \A i \in 1..Len(files) :
              files[i].path = k => files[i].content = LastContent(generated_files, k)
    /\ \A i \in 1..Len(files) : files[i].path \in keys /\ files[i].path # <<>>

\* the normalized paths of the base file set of the payload
BasePaths == {normalize_path(base_files.list[i].path) : i \in 1..Len(base_files.list)}

OverlayMode == base_files.is_list /\ base_files.list # <<>>

\* the safe paths of the base file set of an overlay request
OverlayBasePaths ==
  {safe_normalize(base_files.list[i].path) : i \in 1..Len(base_files.list)} \ {NoPath}

\* C2: in overlay mode, a non-manifest file returned by the model is in the delta
\* if and only if its normalized path is absent from the base file set or its
\* content differs from the base content stored for that path.
\* (The overlay endpoint drops the files whose path is unsafe before the delta.)
C2_DeltaIff ==
  /\ (IsAgent /\ OverlayMode /\ calls.gen > 0) =>
       \A i \in 1..Len(parsed_files) :
         LET np == normalize_path(parsed_files[i].path)
             c == parsed_files[i].content IN
         Basename(np) # Manifest =>
           (File(np, c) \in Range(generated_files)
              <=> (np \notin BasePaths \/ base_files_map[np] # c))
  /\ (entry = "overlay" /\ outcome = "response") =>
       \A i \in 1..Len(parsed_files) :
         LET sp == safe_normalize(parsed_files[i].path)
             c == parsed_files[i].content IN
         (sp # NoPath /\ Basename(sp) # Manifest) =>
           (File(sp, c) \in Range(files)
              <=> (sp \notin OverlayBasePaths \/ base_files_map[sp] # c))

\* the model returned a file identical to its base file, which the delta drops, and
\* a file that differs from its base file, which the delta keeps
C2_Witness ==
  /\ IsAgent /\ OverlayMode /\ calls.gen > 0
  /\ \E i \in 1..Len(parsed_files) :
       LET np == normalize_path(parsed_files[i].path) IN
       /\ np \in BasePaths
       /\ base_files_map[np] = parsed_files[i].content
       /\ File(np, parsed_files[i].content) \notin Range(generated_files)
  /\ \E i \in 1..Len(parsed_files) :
       LET np == normalize_path(parsed_files[i].path) IN
       /\ np \in BasePaths
       /\ base_files_map[np] # parsed_files[i].content
       /\ File(np, parsed_files[i].content) \in Range(generated_files)

\* a path that names the manifest
NamesManifest(path) == Basename(NormPath(path)) = Manifest

FileEventKinds == {"file_start", "file_chunk", "file_complete"}

\* C3: in overlay mode no package.json is part of the emitted output: not in the
\* files of a single-shot response and not in a streamed file event.
C3_NoManifestInOverlay ==
  OverlayMode =>
    /\ (entry = "generate" /\ outcome = "response") =>
         \A i \in 1..Len(files) : ~NamesManifest(files[i].path)
    /\ \A i \in 1..Len(events) :
         events[i].event \in FileEventKinds => ~NamesManifest(events[i].payload.path)

\* a generation call of chain.py generate_project_files has returned its files
ChunkCallReturns == entry = "chain_generate" /\ pc = "gen" /\ calls'.batch = calls.batch + 1

\* the request made several generation calls, which have all returned
SeveralCalls == entry = "chain_generate" /\ pc = "chain_pin" /\ calls.batch > 1

\* C34: the files of the calls of one request are taken in in the order the calls
\* were issued (a call is issued when the one before it has returned, the
\* scaffolding call last), and for every path the merged files hold the content of
\* the last-issued call that produced it: the merged files are a function of the
\* outputs in emission order.
C34_EmissionOrderWins ==
  /\ [][ChunkCallReturns =>
          /\ generated_files' = generated_files \o parsed_files'
          /\ calls'.sent = Append(calls.sent, ChainPrompt(calls.batch))]_vars
  /\ [](SeveralCalls =>
          /\ files = Dedupe(generated_files)
          /\ \A i \in WithPath(generated_files) :
               LET k == CleanPath(generated_files[i].path) IN
               /\ Cardinality({j \in 1..Len(files) : files[j].path = k}) = 1
               /\ \A j \in 1..Len(files) :
                    files[j].path = k => files[j].content = LastContent(generated_files, k))

(***************************************************************************)
(* Properties of the validate / repair loop and of the scratch directories.*)
(***************************************************************************)
\* C5: with repair budget 1 and a validator that fails on every run (and an
\* environment that lets the files be written), a generate request with validation
\* issues exactly one repair call and ends with a response whose validation report
\* has ok = false.
C5_OneRepairThenReport ==
  (/\ entry = "generate" /\ pc = "done" /\ opts.validate
   /\ calls.validator > 0 /\ calls.val_fail = calls.validator /\ calls.io_fail = 0)
  => (/\ calls.repair = 1
      /\ outcome = "response"
      /\ report.checked /\ report.ok = "false")

\* the repair budget of the request: attempt_repair's repair_attempts, the
\* orchestrators' fixed 1, the legacy loop's LLM_RETRIES
Budget == IF entry = "repair" THEN env.budget ELSE IF IsChain THEN env.retries ELSE 1

\* C6: whatever the repair outputs and the validator results, a request issues at
\* most as many repair calls as its budget, and it always comes to its end.
C6_BoundedRepairLoop == [](calls.repair <= Budget) /\ <>(pc = "done")

\* a loop that used up a budget of two on repairs that never passed validation
C6_Witness ==
  /\ entry = "chain_generate" /\ pc = "done"
  /\ env.retries = MaxBudget /\ calls.repair = MaxBudget
  /\ report.ok = "false"

\* C7: a scratch directory is gone when the operation that made it has returned,
\* on every exit path: no directory is left at the end of a request, and the
\* lockfile directory is gone as soon as the npm run has returned.
C7_ScratchRemoved ==
  /\ pc = "done" => tmp_live = {}
  /\ pc # "npm" => "npm_resolve" \notin tmp_live

\* a request that made its validation directory and ended with an exception
C7_Witness ==
  /\ pc = "done" /\ outcome = "error"
  /\ "ai_gen" \in tmp_made /\ tmp_live = {}

\* the validate / repair loop is over and every run of the validator failed
\* (attempt_repair on its own is called after a failed run)
AllRunsFailed ==
  /\ pc = "done"
  /\ entry = "repair" \/ (calls.validator > 0 /\ calls.val_fail = calls.validator)

\* C32: with a repair budget of N and a validator that fails on every run, the
\* repair operation has issued exactly N repair generation calls when it stops.
C32_ExactlyBudgetCalls == AllRunsFailed => calls.repair = Budget

\* a step that merges the files of a repair call into the current files: that of
\* generate_project, or an iteration of the loop of chain.py
MergeStep ==
  \/ entry = "generate" /\ pc = "repair" /\ pc' = "revalidate"
  \/ IsChain /\ pc = "chain_repair" /\ calls'.repair = calls.repair + 1

\* the repaired files of the step, and those whose normalized path is p
RepairedNow == rep'.repaired_files

RepairsOf(p) == {i \in 1..Len(RepairedNow) : CleanPath(RepairedNow[i].path) = p}

LastRepair(p) == RepairedNow[CHOOSE i \in RepairsOf(p) : \A j \in RepairsOf(p) : j <= i]

NewPaths == {CleanPath(RepairedNow[i].path) : i \in 1..Len(RepairedNow)}
              \ {CleanPath(files[k].path) : k \in 1..Len(files)}

\* files' is files with the repaired files merged in, each under its normalized path
MergedRight ==
  /\ Len(files') = Len(files) + Cardinality(NewPaths)
  /\ \A k \in 1..Len(files) :
       IF RepairsOf(CleanPath(files[k].path)) = {}
       THEN files'[k] = files[k]
       ELSE /\ files'[k].path = CleanPath(files[k].path)
            /\ files'[k].content = LastRepair(CleanPath(files[k].path)).content
  /\ \A p \in NewPaths :
       \E k \in (Len(files) + 1)..Len(files') :
         files'[k].path = p /\ files'[k].content = LastRepair(p).content
  /\ \A j, k \in 1..Len(files') : files'[j].path = files'[k].path => j = k

\* the step that follows the merge, in an environment that lets files be written:
\* the step Revalidate of generate_project; in chain.py the merge step itself
RerunStep ==
  /\ calls'.io_fail = calls.io_fail
  /\ \/ entry = "generate" /\ pc = "revalidate" /\ pc' # pc
     \/ IsChain /\ pc = "chain_repair" /\ calls'.repair = calls.repair + 1 /\ RepairedNow # <<>>

\* the validators ran once in the step and the report holds their verdict
RerunReported ==
  /\ calls'.validator = calls.validator + 1
  /\ report'.ok = IF calls'.val_fail = calls.val_fail THEN "true" ELSE "false"

\* C33: the merge of repaired files replaces the content of every file whose
\* normalized path is that of a repaired file, appends the repaired files whose
\* path is new, and leaves every other file as it was; the paths are unique after
\* the merge; and the validators then run once on the merged files, the report
\* holding the verdict of that run.
C33_MergeRepaired ==
  [][(MergeStep => MergedRight) /\ (RerunStep => RerunReported)]_vars

\* the scratch directory of the operation: attempt_repair's workdir, or the
\* directory generate_project / stream_generate_project made
ScratchDir == IF entry = "repair" THEN TmpDir("work") ELSE AiGen

Inside(dir, t) == IsPrefix(dir, t) /\ t # dir

\* C35: every file written while the files are materialized, validated or
\* repaired lies inside the scratch directory of the request, whatever paths the
\* model gave in its generation or repair result.
C35_WritesInsideScratch ==
  (IsAgent \/ entry = "repair") => \A t \in disk : Inside(ScratchDir, t)

(***************************************************************************)
(* Properties of the followup gate.                                        *)
(***************************************************************************)
\* C8: when the gate declines in streaming mode, the stream is exactly one
\* followups event: no other event and no generation call.
C8_StreamDecline ==
  (\/ entry = "stream" /\ pc # "gate" /\ followups # <<>>
   \/ entry = "chain_stream" /\ pc # "gate" /\ ChainDeclines(followups))
  => (/\ pc = "done"
      /\ events = <<Followups(followups)>>
      /\ calls.gen = 0)

\* a stream that ended on its followups
C8_Witness == entry = "stream" /\ outcome = "followups" /\ Len(events) = 1

\* C9: when the gate yields a followup and no followup answers were supplied, the
\* single-shot operation returns files = [] with the followups, without an error
\* and without a generation call, a dependency resolution or a validation.
C9_GenerateDecline ==
  (/\ entry \in {"generate", "chain_generate"}
   /\ pc # "gate" /\ followups # <<>> /\ opts.answers = {})
  => (/\ pc = "done" /\ outcome = "followups"
      /\ files = <<>>
      /\ calls.gen = 0 /\ calls.registry = 0 /\ calls.npm = 0 /\ calls.validator = 0
      /\ dep_meta = NoMeta /\ tmp_made = {})

\* a single-shot request of the legacy orchestrator that returned its followups
C9_Witness ==
  /\ entry = "chain_generate" /\ outcome = "followups"
  /\ followups # <<>> /\ files = <<>>

\* C10: when questions were requested, the result of the gate is never empty (it
\* holds the fallback question when no candidate is left), and a request whose gate
\* result is the fallback question does not go on to generate files.
C10_FallbackQuestion ==
  (/\ entry \in {"generate", "stream", "chain_generate", "chain_stream"}
   /\ opts.request_questions /\ pc # "gate")
  => (/\ followups # <<>>
      /\ followups = <<FallbackQuestion>> => calls.gen = 0)

\* the normalized questions of the history the caller supplied
NormHistory == {Normalize(q) : q \in opts.previous_questions}

\* C11: no followup the gate returns has, once normalized (trimmed, lower-cased,
\* whitespace collapsed), the text of a question of the caller's history; so a
\* second round, with the questions of the first in the history, returns none of
\* them again.
C11_NoRepeatedQuestion ==
  (entry = "questions" /\ pc = "asked") =>
    \A i \in 1..Len(followups) : Normalize(followups[i].question) \notin NormHistory

\* a second round that still found a new question to ask
C11_Witness ==
  /\ entry = "questions" /\ pc = "asked" /\ calls.gate = MaxRounds
  /\ followups # <<>>
  /\ Cardinality(opts.previous_questions) >= 2

\* the second of two calls has returned, the first pinned every requested name
\* and less than the TTL lies between the two
SecondCallWithinTTL ==
  /\ entry = "resolve" /\ pc = "done" /\ first.ran /\ dep_meta.ran
  /\ now - first.time < NPM_CACHE_TTL
  /\ \A n \in Range(ODKeys(res.deps)) : ODHas(first.pinned, n)

\* C12: a second call of the resolver for a package the first call resolved, made
\* before the TTL has elapsed, issues no registry request and no external resolver
\* run, and returns the version of the first call.
C12_CachedSecondCall ==
  SecondCallWithinTTL =>
    /\ calls.registry = first.calls.registry
    /\ calls.npm = first.calls.npm
    /\ \A n \in Range(ODKeys(res.deps)) :
         ODHas(dep_meta.pinned, n) /\ ODGet(dep_meta.pinned, n) = ODGet(first.pinned, n)

\* the requested names that have an entry in the curated table
CuratedRequested == {n \in Range(ODKeys(res.deps)) : n \in DOMAIN env.curated}

\* C13: a requested package with an entry in the curated table is returned with
\* exactly the curated version, source "curated" and confidence 1.0, and when every
\* requested package is curated neither the external resolver nor the registry
\* is called.
C13_CuratedFirst ==
  (entry = "resolve" /\ pc = "done" /\ dep_meta.ran) =>
    /\ \A n \in CuratedRequested :
         \E i \in 1..Len(dep_meta.resolved) :
           /\ dep_meta.resolved[i].name = n
           /\ dep_meta.resolved[i].version = env.curated[n]
           /\ dep_meta.resolved[i].source = "curated"
           /\ dep_meta.resolved[i].confidence = 100
    /\ (CuratedRequested = Range(ODKeys(res.deps))) => (calls.npm = 0 /\ calls.registry = 0)

\* the file events of the stream that carry `path`
FileEventsOf(path) ==
  SelectSeq(events, LAMBDA e : e.event \in FileEventKinds /\ e.payload.path = path)

\* ceil(L / S)
CeilDiv(L, S) == CHOOSE n \in 0..L : n * S >= L /\ (n = 0 \/ (n - 1) * S < L)

RECURSIVE ConcatChunks(_)
ConcatChunks(evs) == IF evs = <<>> THEN <<>> ELSE Head(evs).payload.chunk \o ConcatChunks(Tail(evs))

\* the streamed files, once _stream_files_list has run
Streamed == IF entry = "stream" /\ pc \in {"pin", "done"} /\ outcome # "error" THEN files ELSE <<>>

UniquePath(fs, k) == \A j \in 1..Len(fs) : fs[j].path = fs[k].path => j = k

\* C14: a streamed file of length L > 0 is emitted as one file_start, then
\* ceil(L / STREAM_CHUNK_SZ) file_chunk events of at most STREAM_CHUNK_SZ
\* characters each whose concatenation is the content, the final flag set on the
\* last chunk only, then one file_complete whose size is L.
C14_ChunkedFile ==
  \A k \in 1..Len(Streamed) :
    (Len(Streamed[k].content.txt) > 0 /\ UniquePath(Streamed, k)) =>
      LET evs == FileEventsOf(Streamed[k].path)
          L == Len(Streamed[k].content.txt)
          n == CeilDiv(L, STREAM_CHUNK_SZ)
      IN  /\ Len(evs) = n + 2
          /\ evs[1].event = "file_start"
          /\ \A j \in 1..n :
               /\ evs[j + 1].event = "file_chunk"
               /\ Len(evs[j + 1].payload.chunk) <= STREAM_CHUNK_SZ
               /\ evs[j + 1].payload.final = (j = n)
          /\ ConcatChunks(SubSeq(evs, 2, n + 1)) = Streamed[k].content.txt
          /\ evs[n + 2].event = "file_complete"
          /\ evs[n + 2].payload.size = L

\* a file of MaxContent characters was streamed: a last chunk shorter than the others
C14_Witness ==
  /\ Len(Streamed) = 1
  /\ Len(Streamed[1].content.txt) = MaxContent
  /\ Len(FileEventsOf(Streamed[1].path)) > 3

\* C15: in a stream every file_start, that of a file with empty content too, is
\* followed by at least one file_chunk before the file_complete of the file.
C15_AtLeastOneChunk ==
  \A i \in 1..Len(events) :
    events[i].event = "file_start" =>
      /\ i < Len(events)
      /\ events[i + 1].event = "file_chunk"

\* the number of events of one kind in the stream
EventCount(k) == Cardinality({i \in 1..Len(events) : events[i].event = k})

\* a streaming run has ended, no gate declined and no generation call failed
StreamEnded ==
  /\ entry \in {"stream", "chain_stream", "chain_stream_final"}
  /\ pc = "done" /\ outcome = "response"
  /\ followups = <<>>

\* C16: a streaming run that passed the gate and whose generation calls succeeded
\* ends with exactly one done event, the last of the stream, whose files_count is
\* the number of files emitted in the stream.
C16_DoneLast ==
  StreamEnded =>
    /\ EventCount("done") = 1
    /\ events[Len(events)].event = "done"
    /\ events[Len(events)].payload.files_count = EventCount("file_start")

Streaming == entry \in {"stream", "chain_stream", "chain_stream_final"}

RepairedBefore(i) == \E j \in 1..(i - 1) : events[j].event = "repair"

\* the phase of the i-th event as the claim numbers them; 0 for the other events
PhaseOf(i) ==
  LET k == events[i].event IN
  IF k \in FileEventKinds THEN 1
  ELSE IF k = "dependency" THEN 2
  ELSE IF k = "validation" THEN 3
  ELSE IF k = "repair" THEN 4
  ELSE IF k = "done" THEN 5
  ELSE 0

\* the same with the validation that follows an applied repair as a phase of its own
PhaseWithRevalidation(i) ==
  IF events[i].event = "validation" /\ RepairedBefore(i) THEN 4
  ELSE IF events[i].event = "validation" THEN 3
  ELSE PhaseOf(i)

\* the phases of the stream, the events without a phase left out
Phases(ps) == SelectSeq(ps, LAMBDA x : x # 0)

NonDecreasing(ps) == \A i \in 1..(Len(ps) - 1) : ps[i] <= ps[i + 1]

\* C17: in every stream the events come in the order files, dependency,
\* validation, repair, done: no dependency, validation or repair event before the
\* file_complete of a file, no file event after the first dependency or
\* validation event.
C17_PhaseOrder ==
  Streaming => NonDecreasing(Phases([i \in 1..Len(events) |-> PhaseOf(i)]))

\* C17 as amended: the same order, except that an applied repair is followed by
\* one more validation event before done.
C17_PhaseOrderRevalidated ==
  Streaming =>
    /\ NonDecreasing(Phases([i \in 1..Len(events) |-> PhaseWithRevalidation(i)]))
    /\ EventCount("repair") <= 1
    /\ Cardinality({i \in 1..Len(events) : events[i].event = "validation" /\ RepairedBefore(i)}) <= 1
    /\ \A i \in 1..Len(events) :
         (events[i].event = "validation" /\ RepairedBefore(i)) => rep.ok

\* a stream that went through every phase: files, dependencies, a failed
\* validation, an applied repair, the second validation, done
C17_Witness ==
  /\ entry = "stream" /\ pc = "done"
  /\ EventCount("file_complete") >= 1
  /\ EventCount("dependency") >= 1
  /\ EventCount("repair") = 1
  /\ EventCount("validation") = 2
  /\ events[Len(events)].event = "done"

\* an absolute path, or one with a parent-directory component
UnsafePath(p) == IsAbs(p) \/ ParDir \in Range(Split(p))

\* C18: no file with an absolute path or a parent-directory traversal appears in
\* the files of a response or in a streamed file event.
C18_NoUnsafePath ==
  /\ \A i \in 1..Len(events) :
       events[i].event \in FileEventKinds => ~UnsafePath(events[i].payload.path)
  /\ (entry \in {"generate", "stream", "overlay"} /\ pc = "done" /\ outcome = "response") =>
       \A k \in 1..Len(files) : ~UnsafePath(files[k].path)

\* the invocations of the model made so far that raised
FailedInvocations == {i \in 1..Len(llm.log) : llm.log[i].raised}

\* C19: the client invokes the model at most 1 + max_retries times; it returns on
\* the first invocation that succeeds and invokes no more; it raises the terminal
\* failure, which names the error of the last invocation, exactly when every
\* invocation has failed.
C19_BoundedRetries ==
  entry = "llm" =>
    /\ Len(llm.log) <= 1 + llm.max_retries
    /\ \A i \in 1..Len(llm.log) :
         ~llm.log[i].raised => (i = Len(llm.log) /\ llm.status = "returned" /\ pc = "done")
    /\ llm.status = "returned" => ~llm.log[Len(llm.log)].raised
    /\ pc = "done" =>
         ((llm.status = "raised") <=> (FailedInvocations = 1..Len(llm.log)))
    /\ (llm.status = "raised" /\ llm.log # <<>>) =>
         /\ Len(llm.log) = 1 + llm.max_retries
         /\ llm.raised.last = llm.log[Len(llm.log)].error

\* every allowed attempt was used: the last one succeeded after the others had
\* failed, or all of them failed with different errors
C19_Witness ==
  /\ entry = "llm" /\ pc = "done"
  /\ llm.max_retries = MaxRetries
  /\ Len(llm.log) = 1 + MaxRetries
  /\ llm.status = "raised"
  /\ llm.log[1].error # llm.raised.last

\* generate_project has ended with an exception and no response
Aborted == entry = "generate" /\ pc = "done" /\ outcome = "error"

\* the generation call has returned: the steps after it have begun
GenerationReturned == parsed_files # <<>> \/ dep_meta.ran \/ "ai_gen" \in tmp_made

\* C20: a request to generate is aborted only by the failure of its generation
\* call: once that call has returned, a failed gate, registry, resolver or repair
\* call leaves the request ending with a response (failures of the disk itself
\* left aside).
C20_OnlyGenerationAborts ==
  (Aborted /\ calls.io_fail = 0) => ~GenerationReturned

(***************************************************************************)
(* Failures of dependency resolution.                                      *)
(***************************************************************************)
\* the manifest the model returned, and the dependencies it requests
ReturnedManifest == generated_files[PkgIdx(generated_files)].content

Requested ==
  IF ManifestIdxs(generated_files) = {} \/ ManifestParseFails(generated_files)
     \/ ~IsObject(ReturnedManifest)
  THEN <<>>
  ELSE CollectDeps(ReturnedManifest.pkg)

\* the names the resolver was asked for and found no version for
Unresolved == {n \in Range(ODKeys(Requested)) : ~ODHas(dep_meta.pinned, n)}

ResolutionHasFailed ==
  \/ ManifestIdxs(generated_files) # {} /\ ManifestParseFails(generated_files)
  \/ ManifestIdxs(generated_files) # {} /\ ~ManifestParseFails(generated_files)
       /\ ~IsObject(ReturnedManifest)
  \/ Unresolved # {}

PinningIsOver == entry \in {"generate", "stream"} /\ pc \in {"mktmp", "validate", "repair", "revalidate", "done"}
                   /\ generated_files # <<>>

\* the entry of an unresolved name is the requested range, or "*" for none
LeftUnpinned(c) ==
  IF Requested = <<>> THEN c = ReturnedManifest
  ELSE \A i \in 1..Len(c.pkg.dependencies) :
         LET e == c.pkg.dependencies[i] IN
         e[1] \in Unresolved =>
           e[2] = (IF ReturnedManifest.pkg.dependencies[i][2] # "" THEN ReturnedManifest.pkg.dependencies[i][2] ELSE "*")

\* C21: once the pinning step of generate_project or stream_generate_project is
\* over and the resolution has failed (a manifest that does not parse, a resolver
\* that raised, or a requested name left without a version by npm and the
\* registry), the dependency metadata holds a warning, every file the model
\* returned is still in the result, the manifest keeps the failed entries
\* unpinned, and the request has not been aborted by the pinning step: it goes on
\* to validation or to its response.
C21_ResolutionFailureTolerated ==
  (PinningIsOver /\ ResolutionHasFailed) =>
     /\ dep_meta.warnings # <<>>
     /\ \A i \in 1..Len(generated_files) : \E j \in 1..Len(files) :
           files[j].path = generated_files[i].path
     /\ calls.repair = 0 =>
           \A j \in 1..Len(files) : IsManifestPath(files[j].path) => LeftUnpinned(files[j].content)
     /\ outcome = "error" => "ai_gen" \in tmp_made
     /\ (pc = "done" /\ ~opts.validate) => outcome = "response"

C21_Witness ==
  /\ PinningIsOver /\ pc = "done" /\ outcome = "response"
  /\ Unresolved # {}
  /\ dep_meta.ran

C21_WitnessRaised ==
  /\ PinningIsOver /\ pc = "done" /\ outcome = "response"
  /\ ~IsObject(ReturnedManifest)

(***************************************************************************)
(* The shape of the generated object.                                      *)
(***************************************************************************)
\* C22: a request whose generation call returned (its files were taken in) ends
\* with a response, whatever the shape of the returned object: no exception from
\* a missing or null part propagates.
C22_ShapeTolerated ==
  (entry \in {"generate", "stream"} /\ pc = "done" /\ generated_files # <<>>) =>
     outcome = "response"

(***************************************************************************)
(* The validation report.                                                  *)
(***************************************************************************)
\* the checks that were requested and whose tool is installed
Ran == {c \in Checks : opts[c] /\ env.installed[c]}

\* C23: the ok of the report of run_validations is the conjunction of the results
\* of the checks that ran, and null when no check ran: none was requested, or the
\* tool of every requested check is missing.
C23_OkOfChecksThatRan ==
  (entry = "validations" /\ pc = "done") =>
     report.ok = (IF Ran = {} THEN None
                  ELSE IF \A c \in Ran : env.answers[c] = "pass" THEN "true" ELSE "false")

\* C24: when the tool of the check is missing, the validation of a request
\* reports the check as skipped, the report never has ok = false, and no repair
\* generation call is issued.
C24_MissingToolIsSkipped ==
  (~env.tsc /\ report.checked) =>
     /\ report.skipped
     /\ report.ok # "false"
     /\ calls.repair = 0

(***************************************************************************)
(* Batched generation.                                                     *)
(***************************************************************************)
\* every generation call of the request was made and returned
GenerationPhaseOver ==
  /\ entry \in {"generate", "stream", "chain_generate"}
  /\ pc \notin {"gate", "gen"}
  /\ calls.gen > 0
  /\ ~(pc = "done" /\ outcome = "error")

RECURSIVE SentComponents(_, _)
\* the components of the first k prompts, in the order they were sent
SentComponents(sent, k) ==
  IF k = 0 THEN <<>> ELSE SentComponents(sent, k - 1) \o sent[k].components

Batched(sent, n, B) ==
  /\ Len(sent) = CeilDiv(n, B) + 1
  /\ \A k \in 1..CeilDiv(n, B) : sent[k].kind = "chunk" /\ Len(sent[k].components) <= B
  /\ SentComponents(sent, CeilDiv(n, B)) = Units(n)
  /\ sent[Len(sent)] = ScaffoldPrompt

\* C25: for a schema of n > 0 components and a chunk size B the generation phase
\* issues ceil(n / B) batch calls of at most B components each, which cover the
\* components once each and in order, and then one scaffolding call; for n = 0 it
\* issues one call for the whole project.
C25_BatchedGeneration ==
  GenerationPhaseOver =>
     IF opts.components = 0 THEN calls.sent = <<FullPrompt>>
     ELSE Batched(calls.sent, opts.components, env.chunk_size)

(***************************************************************************)
(* The rewritten manifest.                                                 *)
(***************************************************************************)
\* the manifest of the result, once resolve_and_pin_files has rewritten it
Rewritten == files[PkgIdx(files)].content

ManifestRewritten ==
  /\ PinningIsOver /\ dep_meta.ran /\ calls.repair = 0
  /\ ManifestIdxs(files) # {}

\* C26: in the rewritten manifest every entry of dependencies, devDependencies
\* and peerDependencies holds the pinned version when its name is pinned, "*"
\* when it is not pinned and was requested without a range, and the requested
\* range when it is not pinned and has one.
C26_RewrittenEntries ==
  ManifestRewritten =>
     \A k \in 1..Len(Sections) :
        LET sec == Sections[k]
            new == Rewritten.pkg[sec]
            old == ReturnedManifest.pkg[sec] IN
        /\ Len(new) = Len(old)
        /\ \A i \in 1..Len(new) :
              /\ new[i][1] = old[i][1]
              /\ new[i][2] = (IF ODHas(dep_meta.pinned, old[i][1]) THEN ODGet(dep_meta.pinned, old[i][1])
                              ELSE IF old[i][2] = "" THEN "*" ELSE old[i][2])

\* a manifest with a pinned entry, an entry left with "*" and one with its range
C26_Witness ==
  /\ ManifestRewritten
  /\ \E k \in 1..Len(Sections) : \E i \in 1..Len(Rewritten.pkg[Sections[k]]) :
        ODHas(dep_meta.pinned, Rewritten.pkg[Sections[k]][i][1])
  /\ \E k \in 1..Len(Sections) : \E i \in 1..Len(Rewritten.pkg[Sections[k]]) :
        /\ ~ODHas(dep_meta.pinned, Rewritten.pkg[Sections[k]][i][1])
        /\ Rewritten.pkg[Sections[k]][i][2] = "*"

(***************************************************************************)
(* The search fallback of the registry lookup.                             *)
(***************************************************************************)
\* the registry answered 404 for the name and the search returned candidates
Missed(name) ==
  \E i \in 1..Len(dep_meta.warnings) :
     dep_meta.warnings[i] = <<"not found; suggested candidates returned", name>>

\* C27: after a 404 with candidates, the version of the top candidate is pinned
\* under the name of the candidate and nothing is pinned under the queried name,
\* and the resolved entry of the queried name carries the candidates, a low
\* confidence and the source "search-fallback".
C27_SearchFallback ==
  (entry = "resolve" /\ pc = "done" /\ dep_meta.ran) =>
     \A i \in 1..Len(dep_meta.resolved) :
        LET e == dep_meta.resolved[i] IN
        Missed(e.name) =>
          /\ e.candidates # <<>>
          /\ ODHas(dep_meta.pinned, e.candidates[1].name)
          /\ ~ODHas(dep_meta.pinned, e.name)
          /\ e.confidence <= 50      \* hundredths: at most 0.5
          /\ e.source = "search-fallback"

(***************************************************************************)
(* Expiry of the registry cache.                                           *)
(***************************************************************************)
Without(cache, name) == [k \in DOMAIN cache \ {name} |-> cache[k]]

\* what a lookup contributes to the result of the resolver
LookupResult(st) == <<st.pinned, st.resolved, st.warnings>>

\* the entry the saved cache holds for the name is older than the TTL
Expired(name) ==
  name \in DOMAIN npm_cache.data /\ now - npm_cache.data[name].ts >= NPM_CACHE_TTL

\* C28: an entry of the cache is returned as a resolution (source "npm-cache")
\* only while it is younger than NPM_CACHE_TTL, and the lookup of a name whose
\* entry has expired gives, for every answer of the registry, the result it
\* gives when the cache holds no entry for the name.
C28_ExpiredEntryIsAbsent ==
  /\ (entry = "resolve" /\ pc = "done" /\ dep_meta.ran) =>
        \A i \in 1..Len(dep_meta.resolved) :
           LET e == dep_meta.resolved[i] IN
           e.source = "npm-cache" =>
             /\ e.name \in DOMAIN npm_cache.data
             /\ now - npm_cache.data[e.name].ts < NPM_CACHE_TTL
             /\ e.version = npm_cache.data[e.name].ver
  /\ (entry = "resolve" /\ pc = "registry" /\ res.idx <= Len(res.names)) =>
        LET name == res.names[res.idx] IN
        (name \in DOMAIN res.st.cache /\ now - res.st.cache[name].ts >= NPM_CACHE_TTL) =>
           \A out \in RegOutcomesAll :
              LookupResult(RegistryIteration(res.st, name, out, now))
                = LookupResult(RegistryIteration([res.st EXCEPT !.cache = Without(@, name)], name, out, now))

\* the registry was asked for a name whose expired entry is still in the cache
C28_Witness ==
  /\ entry = "resolve" /\ pc = "done" /\ dep_meta.ran
  /\ \E i \in 1..Len(dep_meta.resolved) :
        /\ Expired(dep_meta.resolved[i].name)
        /\ dep_meta.resolved[i].source # "npm-cache"
  /\ calls.registry > 0

(***************************************************************************)
(* Concurrent runs on the cache file.                                      *)
(***************************************************************************)
\* the entries written for a key: by an earlier run, or by a run of the race
Written(key) ==
  (IF key = LeftPad THEN {OldEntry} ELSE {})
  \cup {res[q].wrote : q \in {r \in Procs : res[r].looked /\ res[r].name = key}}

WholeEntries(cache) ==
  \A i \in 1..Len(cache) : cache[i][2] \in Written(cache[i][1])

\* C29: whatever the interleaving of the two runs, every entry a run loads from
\* the cache file, and every entry the file holds once both runs are over, is an
\* entry (version and timestamp) that one run wrote for that key: no entry is
\* partial or mixed from two writes.
C29_WholeEntries ==
  (IsRace /\ pc = "race") =>
     /\ \A q \in Procs : WholeEntries(res[q].cache)
     /\ (\A q \in Procs : res[q].pc = "done") => WholeEntries(LoadCacheFile(npm_cache))

\* both runs of _resolve_with_registry are over, each asked the registry for
\* its own package and saved the cache
BothRunsSaved ==
  /\ entry = "race_resolver" /\ pc = "race"
  /\ \A q \in Procs : res[q].pc = "done" /\ res[q].looked
  /\ res[1].name # res[2].name

\* C39: after two concurrent resolver runs for distinct packages have both
\* completed, the cache file holds an entry for both packages: the save of one
\* run never discards the entry the other run added.
C39_BothEntriesKept ==
  BothRunsSaved => \A q \in Procs : ODHas(LoadCacheFile(npm_cache), res[q].name)

(***************************************************************************)
(* Image files in the output of the model.                                 *)
(***************************************************************************)
\* the model returned a file whose safe path has a binary extension
ReturnedBinary ==
  \E i \in 1..Len(parsed_files) :
     LET sp == safe_normalize(parsed_files[i].path) IN sp # NoPath /\ HasBinaryExt(sp)

\* C30: when the model returns a file with a binary / image extension, the
\* request still ends with a response and no file of the response has such an
\* extension.
C30_BinaryOmitted ==
  (entry \in {"overlay", "generate", "stream"} /\ pc = "done" /\ ReturnedBinary) =>
     /\ outcome = "response"
     /\ \A j \in 1..Len(files) : ~HasBinaryExt(files[j].path)

(***************************************************************************)
(* The streamed run against the single-shot run.                           *)
(***************************************************************************)
\* both runs of one request have answered
BothAnswered ==
  /\ entry = "stream" /\ pc = "done" /\ first.ran
  /\ first.outcome = "response" /\ outcome = "response"

FileEvents == SelectSeq(events, LAMBDA e : e.event \in FileEventKinds)

\* what a consumer of the stream holds: per path of a file_start, the text of the
\* chunks that follow the last file_start of that path, which is the text of the
\* last file streamed under the path
ConsumerPaths == {FileEvents[i].payload.path : i \in {j \in 1..Len(FileEvents) : FileEvents[j].event = "file_start"}}

ConsumerContent(p) ==
  LET ks == {k \in 1..Len(generated_files) : NormPath(generated_files[k].path) = p}
      last == CHOOSE k \in ks : \A j \in ks : j <= k
  IN  generated_files[last].content

\* a content without the layout of its text
Doc(c) == [txt |-> c.txt, json |-> c.json, pkg |-> c.pkg]

\* C31: for the same request and the same answers of the model, of the registry
\* and of the compiler, the files a consumer rebuilds from the file events of the
\* stream are the files of the single-shot response (one entry per path, the
\* manifest with its pinned versions), and both runs make the same number of
\* registry, npm and validator calls.
C31_StreamParity ==
  BothAnswered =>
    /\ FileEvents = StreamFilesList(generated_files)
    /\ {first.files[k].path : k \in 1..Len(first.files)} = ConsumerPaths
    /\ \A k \in 1..Len(first.files) :
         /\ UniquePath(first.files, k)
         /\ first.files[k].path \in ConsumerPaths =>
              Doc(first.files[k].content) = Doc(ConsumerContent(first.files[k].path))
    /\ calls.registry = first.calls.registry
    /\ calls.npm = first.calls.npm
    /\ calls.validator = first.calls.validator

(***************************************************************************)
(* The frame of the manifest rewrite.                                      *)
(***************************************************************************)
PinPcs == {"pin", "npm", "registry"}

\* resolve_and_pin_files returns its files and its meta
PinReturns == IsAgent /\ pc \in PinPcs /\ pc' \notin PinPcs /\ dep_meta'.ran

SectionNames(c, sec) == {c.pkg[sec][i][1] : i \in 1..Len(c.pkg[sec])}

\* after is before but for the versions of the manifest's entries
SameButVersions(before, after) ==
  /\ Len(after) = Len(before)
  /\ \A i \in 1..Len(before) :
       /\ after[i].path = before[i].path
       /\ i # PkgIdx(before) => after[i].content = before[i].content
  /\ \A k \in 1..Len(Sections) :
       /\ SectionNames(after[PkgIdx(before)].content, Sections[k])
            = SectionNames(before[PkgIdx(before)].content, Sections[k])
       /\ Len(after[PkgIdx(before)].content.pkg[Sections[k]])
            = Len(before[PkgIdx(before)].content.pkg[Sections[k]])

\* C36: resolve_and_pin_files adds no dependency name to the manifest and removes
\* none: each of the three sections holds the same names when it returns as when
\* it was entered, also when the search fallback pinned a candidate of another
\* name, and every other file is returned with its path and content unchanged.
C36_RewriteKeepsNames ==
  [][/\ PinReturns => SameButVersions(files, files')
     /\ (IsAgent /\ pc \in PinPcs /\ ~PinReturns) => files' = files]_vars

\* the search fallback pinned a name that the rewritten manifest does not hold
C36_Witness ==
  /\ ManifestRewritten
  /\ Len(files) > 1
  /\ \E i \in 1..Len(dep_meta.pinned) :
       \A k \in 1..Len(Sections) : dep_meta.pinned[i][1] \notin SectionNames(Rewritten, Sections[k])
  /\ \E k \in 1..Len(Sections) : SectionNames(Rewritten, Sections[k]) # {}

(***************************************************************************)
(* The dependency events of a stream.                                      *)
(***************************************************************************)
DependencyEvents == SelectSeq(events, LAMBDA e : e.event = "dependency")

\* the warning events of the stream but that of the validation block
ResolutionWarnings == SelectSeq(events, LAMBDA e : e.event = "warning" /\ e # PipelineError)

\* C37: once a stream has pinned its dependencies, it has emitted one dependency
\* event for each entry of the resolved list of the resolver and one warning event
\* for each of its warnings, in their order, and no other.
C37_OneEventPerEntry ==
  (entry = "stream" /\ PinningIsOver) =>
    /\ DependencyEvents = [i \in 1..Len(dep_meta.resolved) |-> Event("dependency", dep_meta.resolved[i])]
    /\ ResolutionWarnings = [i \in 1..Len(dep_meta.warnings) |-> Warning(dep_meta.warnings[i])]

(***************************************************************************)
(* The candidates the gate keeps.                                          *)
(***************************************************************************)
\* the candidates of the model output, as _parse_followups reads them
Candidates == parse_followups(env.gate)

\* a candidate that is urgent enough, was not asked before and is not covered by
\* an answer given before
Qualifies(c) ==
  /\ c.urgency >= opts.min_urgency
  /\ Normalize(c.question) \notin NormHistory
  /\ ~AlreadyAnswered(Normalize(c.question), PrevAnswerTexts(opts.answers))

Truncated == Len(followups) = opts.max_questions

FileBlock(i, j) ==
  /\ events[i].event = "file_start"
  /\ events[j].event = "file_complete"
  /\ events[j].payload.path = events[i].payload.path
  /\ \A k \in (i + 1)..(j - 1) :
       /\ events[k].event = "file_chunk"
       /\ events[k].payload.path = events[i].payload.path
       /\ events[k].payload.index = k - i - 1

IsFileEvent(i) == events[i].event \in {"file_start", "file_chunk", "file_complete"}

\* C40: the file events of different files are never interleaved in a stream:
\* between the file_start of a path and the next file_complete every event is a
\* file_chunk of that path, the chunk indexes being 0, 1, 2, ... without gaps,
\* and every file_start is matched by one file_complete of the same path (every
\* file_chunk and file_complete lying in the block of one file_start).
C40_FilesNotInterleaved ==
  Streaming =>
    /\ \A i \in 1..Len(events) :
         events[i].event = "file_start" =>
            \E j \in (i + 1)..Len(events) : FileBlock(i, j)
    /\ \A k \in 1..Len(events) :
         IsFileEvent(k) =>
            \E i \in 1..k, j \in k..Len(events) : i < j /\ FileBlock(i, j)

\* two files were streamed one after the other, the first in several chunks
C40_Witness ==
  /\ Streaming
  /\ \E i, j \in 1..Len(events) :
        /\ FileBlock(i, j) /\ j > i + 2
        /\ j < Len(events)
        /\ events[j + 1].event = "file_start"
        /\ events[j + 1].payload.path # events[i].payload.path

====
